---- MODULE Spec2Model ----
(***************************************************************************)
(* 3D Trail: the particle lifecycle and pooling engine of src/js/main.js   *)
(* and the UI handlers of src/js/ui.js that drive it.                      *)
(*                                                                         *)
(* Time is discrete.  One unit stands for 50 ms: the spawn interval        *)
(* 1000 / density at the default density of 20.  performance.now(),        *)
(* clock.getDelta(), particle ages and lifespans are counted in this unit  *)
(* (the code counts the first in milliseconds, the others in seconds).     *)
(* The code reads times only through differences, so instants are kept     *)
(* relative to the current one: performance.now() reads 0 and              *)
(* lastSpawnTime is zero or negative, saturating at -TimeHorizon.          *)
(* A frame of animate() is split into its steps: Animate (delta is read),  *)
(* TrySpawnParticle, UpdateParticles.  Event handlers run between frames.  *)
(***************************************************************************)
EXTENDS Integers, Sequences, FiniteSets, TLC

\* ---------------------------------------------------------------- bounds
\* Capacity of the main pool (1000 in the code: new ParticlePool(1000)).
PoolCapacity == 2

\* Most gradient sets the add-gradient button allows (5 in the code).
MaxGradientSets == 2

\* ------------------------------------------------------------ input sets
\* Values of clock.getDelta() in one frame.
Deltas == {1, 2}
\* Values of the lifespan slider.
Lifespans == {2, 3}
\* Names for loaded geometries; a load takes the least name not referenced.
Geometries == 1..3

\* The null that acquire() returns; no slot index is negative.
NULL == -1

\* performance.now(), read in the current frame or event handler.
now == 0

Max(a, b) == IF a >= b THEN a ELSE b

VARIABLES
    delta,                  \* animate's local delta (0 outside a frame)
    pc,                     \* position inside animate(): idle, spawn, update
    isMouseDown,
    pointerOnPlane,         \* getWorldPosition() finds an intersection
    lastSpawnTime,
    settings,               \* density, lifespan, materialEnabled,
                            \* multiGradientMode, gradientSets
    particlePool,
    loadedGeometry,         \* 0 is null
    loadedMaterial,         \* 0 is null
    isModelLoaded,
    customMaterial,
    originalMaterial,
    gradientPools,
    useMultiGradientPools,
    scene,                  \* the instanced meshes added to the scene
    lastAcquire             \* the acquire() call of trySpawnParticle in this
                            \* frame: the pool it chose, the index returned

\* The gradient blend controller and the textures of the custom material.
VARIABLES
    currentGradientA,       \* index of gradient A in the blend
    currentGradientB,       \* index of gradient B in the blend
    gradientMixRatio,       \* in units of 1 / MixScale
    gradientCycleSpeed,     \* settings.gradientCycleSpeed
    gradientTextures,       \* the pre-generated textures, one per gradient
    matcap,                 \* customMaterial.matcap
    shader                  \* customMaterial.userData.shader: its uniforms
                            \* matcap2 and mixRatio, once compiled

blendVars == <<currentGradientA, currentGradientB, gradientMixRatio,
               gradientCycleSpeed, gradientTextures, matcap, shader>>

\* State that the pools and the blend controller neither read nor write.
VARIABLES
    scaleSettings,          \* settings: size, sizeMin, sizeMax, randomSize,
                            \* sizeBySpeed, exitDuration, disappearMode
    mouseSpeed,
    probe,                  \* one particle with its scale and the scale
                            \* written to its slot of the instance matrix
    loads,                  \* the model loads requested so far, in order
    frameLog                \* the calls animate() has made in this frame

\* State of the gradient editor.
VARIABLES
    editor                  \* the gradient set as the editor of the panel
                            \* holds it: the stops of every gradient, the
                            \* expanded and the active gradient
VARIABLES
    content                 \* what the textures are generated from: the
                            \* stops and type of every gradient, and
                            \* settings.lightPosition

\* State of the motion of one particle.
VARIABLES
    motion,                 \* the movement, facing and physics settings
    body,                   \* one particle: position, velocity, yaw, spin
    currentMouseWorld,      \* updateParticles' local of the last tick: what
                            \* getWorldPosition() returned
    currentMouseWorldPos    \* the global: the last position that was found

physVars == <<motion, body, currentMouseWorld, currentMouseWorldPos>>

VARIABLES
    exports,                \* the target canvases renderHighResolution has
                            \* drawn: the scale of each
    matrixLog               \* the calls of the current frame on the pools'
                            \* instance matrices

lateVars == <<exports, matrixLog>>

VARIABLES
    gpu                     \* the texture objects: which texture the custom
                            \* material and gradientTextures refer to, and
                            \* how often dispose() was called on each

lifeVars == <<gpu>>

\* The number of texture objects matcapGenerator.generate creates in a run.
MaxTextures == 6

\* The largest gradient set of the texture projection.
MaxLifeGradients == 2

moreVars == <<editor, content, physVars, lateVars, lifeVars>>

auxVars == <<scaleSettings, mouseSpeed, probe, loads, frameLog, moreVars>>

vars == <<delta, pc, isMouseDown, pointerOnPlane, lastSpawnTime, settings,
          particlePool, loadedGeometry, loadedMaterial, isModelLoaded,
          customMaterial, originalMaterial, gradientPools,
          useMultiGradientPools, scene, lastAcquire, blendVars, auxVars>>

\* ------------------------------------------------------------- materials
NoMaterial == [kind |-> "none", of |-> 0]
\* The clone of the material of the model whose geometry is g.
BaseMaterial(g) == [kind |-> "base", of |-> g]
\* The material of createCustomMaterial.
MatcapMaterial == [kind |-> "custom", of |-> 0]
\* The material of createMaterialForGradient(gradientIndex).
GradientMaterial(gradientIndex) == [kind |-> "gradient", of |-> gradientIndex]

\* window.MatCapGenerator is shipped with the tool: initMaterialSystem finds it.
matcapGenerator == TRUE

\* --------------------------------------------------------------- meshes
NoMesh == [kind |-> "none", gradientIndex |-> NULL, geometry |-> 0]
MainMesh(g) == [kind |-> "main", gradientIndex |-> NULL, geometry |-> g]
GradientMesh(i, g) == [kind |-> "gradient", gradientIndex |-> i, geometry |-> g]

\* ----------------------------------------------------------- ParticlePool
\* particles is the Map in insertion order: a sequence of particles, each
\* carrying its key in .index.  matrix[i] is 0 for the zero-scale matrix and
\* 1 for a particle's transform.
ParticlePool(maxCount) ==
    [maxCount      |-> maxCount,
     instancedMesh |-> NoMesh,
     material      |-> NoMaterial,
     particles     |-> << >>,
     freeIndices   |-> << >>,
     activeCount   |-> 0,
     matrix        |-> << >>]

PoolInit(pool, mesh, material) ==
    [pool EXCEPT !.instancedMesh = mesh,
                 !.material      = material,
                 !.freeIndices   = @ \o [i \in 1..pool.maxCount |-> i - 1],
                 !.matrix        = [i \in 0..(pool.maxCount - 1) |-> 0]]

\* A faulty acquire() that reads the last free index and leaves it on the
\* free list.
AcquireWithoutPop(pool) ==
    IF Len(pool.freeIndices) = 0
    THEN [index |-> NULL, pool |-> pool]
    ELSE [index |-> pool.freeIndices[Len(pool.freeIndices)],
          pool  |-> [pool EXCEPT !.activeCount = @ + 1]]

\* acquire(): the index returned (NULL for null) and the pool afterwards.
Acquire(pool) ==
    IF Len(pool.freeIndices) = 0
    THEN [index |-> NULL, pool |-> pool]
    ELSE [index |-> pool.freeIndices[Len(pool.freeIndices)],
          pool  |-> [pool EXCEPT
                       !.freeIndices = SubSeq(@, 1, Len(@) - 1),
                       !.activeCount = @ + 1]]

\* A faulty release() that leaves the particle's transform in the slot.
ReleaseWithoutReset(pool, index) ==
    [pool EXCEPT !.particles   = SelectSeq(@, LAMBDA p : p.index # index),
                 !.freeIndices = Append(@, index),
                 !.activeCount = @ - 1]

\* A faulty release() that forgets "this.activeCount--".
ReleaseKeepingCount(pool, index) ==
    [pool EXCEPT !.matrix      = [i \in DOMAIN @ |-> IF i = index THEN 0 ELSE @[i]],
                 !.particles   = SelectSeq(@, LAMBDA p : p.index # index),
                 !.freeIndices = Append(@, index)]

Release(pool, index) ==
    [pool EXCEPT !.matrix      = [i \in DOMAIN @ |-> IF i = index THEN 0 ELSE @[i]],
                 !.particles   = SelectSeq(@, LAMBDA p : p.index # index),
                 !.freeIndices = Append(@, index),
                 !.activeCount = @ - 1]

UpdateInstance(pool, index) ==
    [pool EXCEPT !.matrix = [i \in DOMAIN @ |-> IF i = index THEN 1 ELSE @[i]]]

RECURSIVE ReleaseAll(_, _)
ReleaseAll(pool, indices) ==
    IF indices = << >> THEN pool
    ELSE ReleaseAll(Release(pool, Head(indices)), Tail(indices))

Keys(pool) == {pool.particles[i].index : i \in 1..Len(pool.particles)}
KeySeq(particles) == [i \in 1..Len(particles) |-> particles[i].index]

\* clear(): release every key of the Map, in insertion order.
Clear(pool) == ReleaseAll(pool, KeySeq(pool.particles))

\* -------------------------------------------------------------- Particle
\* new Particle(index, ...), then the assignments of trySpawnParticle.
Particle(index, poolIndex) ==
    [index      |-> index,
     age        |-> 0,
     lifespan   |-> settings.lifespan,
     poolIndex  |-> poolIndex]

\* pool.particles.set(index, particle): a new key goes last, a key already
\* in the Map keeps its place and gets the new value.
PoolSet(pool, particle) ==
    [pool EXCEPT !.particles =
        IF particle.index \in Keys(pool)
        THEN [i \in 1..Len(@) |-> IF @[i].index = particle.index THEN particle ELSE @[i]]
        ELSE Append(@, particle)]

\* ------------------------------------------------------- material state
\* The handlers of the material system run in sequence on these variables.
MatState ==
    [settings              |-> settings,
     particlePool          |-> particlePool,
     loadedGeometry        |-> loadedGeometry,
     customMaterial        |-> customMaterial,
     originalMaterial      |-> originalMaterial,
     gradientPools         |-> gradientPools,
     useMultiGradientPools |-> useMultiGradientPools,
     scene                 |-> scene]

SetMatState(st) ==
    /\ settings' = st.settings
    /\ particlePool' = st.particlePool
    /\ customMaterial' = st.customMaterial
    /\ originalMaterial' = st.originalMaterial
    /\ gradientPools' = st.gradientPools
    /\ useMultiGradientPools' = st.useMultiGradientPools
    /\ scene' = st.scene

CreateCustomMaterial == IF matcapGenerator THEN MatcapMaterial ELSE NoMaterial

CreateMaterialForGradient(st, gradientIndex) ==
    IF ~matcapGenerator \/ gradientIndex >= Len(st.settings.gradientSets)
    THEN NoMaterial
    ELSE GradientMaterial(gradientIndex)

CleanupMultiGradientPools(st) ==
    [st EXCEPT
       !.scene = @ \ {st.gradientPools[i].mesh : i \in 1..Len(st.gradientPools)},
       !.gradientPools = << >>,
       !.useMultiGradientPools = FALSE]

\* Math.ceil(1000 / settings.gradientSets.length)
GradientPoolCapacity(n) == (PoolCapacity + n - 1) \div n

NewGradientPool(st, index) ==
    LET pool == PoolInit(ParticlePool(GradientPoolCapacity(Len(st.settings.gradientSets))),
                         GradientMesh(index, st.loadedGeometry),
                         CreateMaterialForGradient(st, index))
    IN [pool |-> pool, material |-> pool.material, mesh |-> pool.instancedMesh,
        gradientIndex |-> index]

InitMultiGradientPools(st) ==
    IF st.loadedGeometry = 0 \/ ~st.settings.materialEnabled THEN st
    ELSE LET s1 == CleanupMultiGradientPools(st)
             made == [i \in 1..Len(s1.settings.gradientSets) |-> NewGradientPool(s1, i - 1)]
             kept == SelectSeq(made, LAMBDA e : e.material # NoMaterial)
         IN [s1 EXCEPT
               !.gradientPools = kept,
               !.scene = @ \cup {kept[i].mesh : i \in 1..Len(kept)},
               !.useMultiGradientPools = Len(kept) > 0]

ToggleMaterialMode(st, enabled) ==
    LET s1 == [st EXCEPT !.settings.materialEnabled = enabled] IN
    IF s1.particlePool.instancedMesh = NoMesh THEN s1
    ELSE IF enabled
    THEN LET s2 == [s1 EXCEPT !.originalMaterial =
                        IF @ = NoMaterial THEN s1.particlePool.material ELSE @]
             s3 == [s2 EXCEPT !.customMaterial = CreateCustomMaterial]
             s4 == [s3 EXCEPT !.particlePool.material =
                        IF s3.customMaterial # NoMaterial THEN s3.customMaterial ELSE @]
         IN IF Len(s4.settings.gradientSets) >= 2
               /\ s4.settings.multiGradientMode = "random"
            THEN InitMultiGradientPools(s4)
            ELSE s4
    ELSE LET s2 == [s1 EXCEPT !.particlePool.material =
                        IF s1.originalMaterial # NoMaterial
                        THEN s1.originalMaterial ELSE @]
             s3 == [s2 EXCEPT !.customMaterial = NoMaterial]
         IN CleanupMultiGradientPools(s3)

\* toggleMaterialMode(false); toggleMaterialMode(true);
ReToggle(st) == ToggleMaterialMode(ToggleMaterialMode(st, FALSE), TRUE)

\* ------------------------------------------------------ blend controller
\* matcapGenerator.generate(gradient.stops, gradient.type,
\* settings.lightPosition) for the gradient of this index: the texture
\* carries what it was generated from.  NoTexture stands for null and for
\* undefined.
Texture(gradientIndex) ==
    [gradient |-> gradientIndex,
     stops    |-> content.gradients[gradientIndex],
     light    |-> content.lightPosition]
NoTexture == [gradient |-> NULL, stops |-> 0, light |-> 0]

\* customMaterial.userData.shader before onBeforeCompile has run.
NoShader == [compiled |-> FALSE, matcap2 |-> NoTexture, mixRatio |-> 0]

\* The declarations of main.js:121-126 and settings.gradientCycleSpeed.
BlendInit ==
    /\ currentGradientA = 0
    /\ currentGradientB = 1
    /\ gradientMixRatio = 0
    /\ gradientCycleSpeed = 1
    /\ gradientTextures = << >>
    /\ matcap = NoTexture
    /\ shader = NoShader

\* ------------------------------------------------------------ other state
\* Scales count in units of 1 / 24: the default size 1.0 is 24.
\* The default gradient and the one the add button makes have three stops.
DefaultStops == 3
\* The add-gradient button makes no sixth gradient.
MaxGradients == 5

\* getWorldPosition() returned null.
NoPoint == [hit |-> FALSE, x |-> 0, y |-> 0]
Point(x, y) == [hit |-> TRUE, x |-> x, y |-> y]

NoBody == [live |-> FALSE, x |-> 0, y |-> 0, vx |-> 0, vy |-> 0, rotY |-> 0,
           spinOffsetY |-> 0, angVelY |-> 0, age |-> 0, lifespan |-> 0]

NoProbe == [live |-> FALSE, initialScale |-> 0, age |-> 0, lifespan |-> 0,
            scale |-> 0, instanceScale |-> 0]

\* The defaults of settings (main.js:34-41), mouseSpeed = 0, no particle.
AuxInit ==
    /\ scaleSettings = [size |-> 24, sizeMin |-> 12, sizeMax |-> 36,
                        randomSize |-> FALSE, sizeBySpeed |-> FALSE,
                        exitDuration |-> 1, disappearMode |-> "fade"]
    /\ mouseSpeed = 0
    /\ probe = NoProbe
    /\ loads = << >>
    /\ frameLog = << >>
    /\ editor = [gradientStops         |-> << DefaultStops >>,
                 expandedGradientIndex |-> 0,
                 activeGradientIndex   |-> 0]
    /\ content = [gradients     |-> [i \in 0..(MaxGradients - 1) |-> 0],
                  lightPosition |-> 0]
    /\ motion = [followEnabled |-> FALSE, gravityEnabled |-> FALSE,
                 bounceEnabled |-> FALSE, spinEnabled   |-> FALSE,
                 facingMode    |-> "billboard"]
    /\ body = NoBody
    /\ currentMouseWorld = NoPoint
    /\ currentMouseWorldPos = Point(0, 0)
    /\ exports = << >>
    /\ matrixLog = << >>
    /\ gpu = [loaded |-> FALSE, materialEnabled |-> FALSE,
              multiGradientMode |-> "random", numGradients |-> 1,
              custom |-> FALSE, onMesh |-> FALSE, compiled |-> FALSE,
              matcap |-> 0, matcap2 |-> 0,
              gradientTextures |-> << >>, poolTextures |-> << >>,
              indexA |-> 0, indexB |-> 1, made |-> 0,
              disposals |-> [t \in 1..MaxTextures |-> 0]]

\* ------------------------------------------------------------------ Init
\* The state when init() has returned: the placeholder pool, no model yet,
\* the default settings.
Init ==
    /\ delta = 0
    /\ pc = "idle"
    /\ isMouseDown = FALSE
    /\ pointerOnPlane = TRUE
    /\ lastSpawnTime = 0
    /\ settings = [density           |-> 20,
                   lifespan          |-> 3,
                   materialEnabled   |-> FALSE,
                   multiGradientMode |-> "random",
                   gradientSets      |-> << [type |-> "radial"] >>]
    /\ particlePool = ParticlePool(PoolCapacity)
    /\ loadedGeometry = 0
    /\ loadedMaterial = 0
    /\ isModelLoaded = FALSE
    /\ customMaterial = NoMaterial
    /\ originalMaterial = NoMaterial
    /\ gradientPools = << >>
    /\ useMultiGradientPools = FALSE
    /\ scene = {}
    /\ lastAcquire = [attempted |-> FALSE, poolIndex |-> NULL, index |-> NULL]
    /\ BlendInit
    /\ AuxInit

matVars == <<settings, particlePool, customMaterial, originalMaterial,
             gradientPools, useMultiGradientPools, scene>>
modelVars == <<loadedGeometry, loadedMaterial, isModelLoaded>>
inputVars == <<isMouseDown, pointerOnPlane, lastSpawnTime>>
frameVars == <<delta, pc, lastAcquire>>

\* ---------------------------------------------------------- input events
\* onMouseDown / onTouchStart: updateMousePosition moves the pointer.
MouseDown ==
    /\ pc = "idle"
    /\ isMouseDown' = TRUE
    /\ \E hit \in BOOLEAN : pointerOnPlane' = hit
    /\ lastSpawnTime' = now
    /\ UNCHANGED <<matVars, modelVars, frameVars>>
    /\ UNCHANGED <<blendVars, auxVars>>

\* onMouseUp / onMouseLeave / onTouchEnd
MouseUp ==
    /\ pc = "idle"
    /\ isMouseDown
    /\ isMouseDown' = FALSE
    /\ UNCHANGED <<pointerOnPlane, lastSpawnTime, matVars, modelVars, frameVars>>
    /\ UNCHANGED <<blendVars, auxVars>>

\* onMouseMove / onTouchMove: the pointer's ray hits the plane or misses it.
MouseMove ==
    /\ pc = "idle"
    /\ pointerOnPlane' = ~pointerOnPlane
    /\ UNCHANGED <<isMouseDown, lastSpawnTime, matVars, modelVars, frameVars>>
    /\ UNCHANGED <<blendVars, auxVars>>

\* ------------------------------------------------------------ GLB loading
\* The geometries that objects other than the main pool still refer to.
ReferencedGeometries ==
    {originalMaterial.of}
        \cup {gradientPools[i].mesh.geometry : i \in 1..Len(gradientPools)}

\* mesh.geometry.clone(): a new geometry, named by the least name that no
\* object refers to once the main pool has been replaced.
FreshGeometry ==
    CHOOSE g \in Geometries :
        /\ g \notin ReferencedGeometries
        /\ \A h \in Geometries : h < g => h \in ReferencedGeometries

\* The success callback of loader.load in loadGLBModel and loadGLBFromURL.
OnLoad(g) ==
    LET instancedMesh == MainMesh(g)
    IN /\ loadedGeometry' = g
       /\ loadedMaterial' = g
       /\ scene' = (IF particlePool.instancedMesh # NoMesh
                    THEN scene \ {particlePool.instancedMesh}
                    ELSE scene) \cup {instancedMesh}
       /\ particlePool' = PoolInit(ParticlePool(PoolCapacity), instancedMesh,
                                   BaseMaterial(g))
       /\ isModelLoaded' = TRUE

\* A load succeeds and brings a geometry that no pool holds.
LoadSuccess ==
    /\ pc = "idle"
    /\ OnLoad(FreshGeometry)
    /\ UNCHANGED <<settings, customMaterial, originalMaterial, gradientPools,
                   useMultiGradientPools, inputVars, frameVars>>
    /\ UNCHANGED <<blendVars, auxVars>>

\* clearModel(): particlePool.clear() empties the pool that is then replaced.
ClearModel ==
    /\ pc = "idle"
    /\ scene' = IF particlePool.instancedMesh # NoMesh
                THEN scene \ {particlePool.instancedMesh}
                ELSE scene
    /\ loadedGeometry' = 0
    /\ loadedMaterial' = 0
    /\ isModelLoaded' = FALSE
    /\ particlePool' = ParticlePool(PoolCapacity)
    /\ UNCHANGED <<settings, customMaterial, originalMaterial, gradientPools,
                   useMultiGradientPools, inputVars, frameVars>>
    /\ UNCHANGED <<blendVars, auxVars>>

\* ------------------------------------------------------------ UI handlers
\* The material-enabled toggle: aria-pressed follows settings.materialEnabled.
MaterialToggleClick ==
    /\ pc = "idle"
    /\ SetMatState(ToggleMaterialMode(MatState, ~settings.materialEnabled))
    /\ UNCHANGED <<modelVars, inputVars, frameVars>>
    /\ UNCHANGED <<blendVars, auxVars>>

AddGradient ==
    /\ pc = "idle"
    /\ Len(settings.gradientSets) < MaxGradientSets
    /\ LET st == [MatState EXCEPT
                    !.settings.gradientSets = Append(@, [type |-> "radial"])]
       IN SetMatState(IF st.settings.materialEnabled
                         /\ st.settings.multiGradientMode = "random"
                      THEN ReToggle(st) ELSE st)
    /\ UNCHANGED <<modelVars, inputVars, frameVars>>
    /\ UNCHANGED <<blendVars, auxVars>>

\* The delete button exists for every gradient but the first (index > 0).
DeleteGradient(index) ==
    /\ pc = "idle"
    /\ index > 0
    /\ index < Len(settings.gradientSets)
    /\ Len(settings.gradientSets) > 1
    /\ LET st == [MatState EXCEPT
                    !.settings.gradientSets =
                        [i \in 1..(Len(@) - 1) |-> IF i <= index THEN @[i] ELSE @[i + 1]]]
       IN SetMatState(IF st.settings.materialEnabled THEN ReToggle(st) ELSE st)
    /\ UNCHANGED <<modelVars, inputVars, frameVars>>
    /\ UNCHANGED <<blendVars, auxVars>>

MultiGradientModeChange(mode) ==
    /\ pc = "idle"
    /\ mode # settings.multiGradientMode
    /\ LET st == [MatState EXCEPT !.settings.multiGradientMode = mode]
       IN SetMatState(IF st.settings.materialEnabled THEN ReToggle(st) ELSE st)
    /\ UNCHANGED <<modelVars, inputVars, frameVars>>
    /\ UNCHANGED <<blendVars, auxVars>>

\* setupSlider('lifespan', 'lifespan', settings)
LifespanInput(value) ==
    /\ pc = "idle"
    /\ value # settings.lifespan
    /\ settings' = [settings EXCEPT !.lifespan = value]
    /\ UNCHANGED <<particlePool, customMaterial, originalMaterial, gradientPools,
                   useMultiGradientPools, scene, modelVars, inputVars, frameVars>>
    /\ UNCHANGED <<blendVars, auxVars>>

\* ------------------------------------------------------------- the frame
\* const spawnInterval = 1000 / settings.density, in units of 50 ms
SpawnInterval == (1000 \div settings.density) \div 50

\* An older lastSpawnTime passes the interval check like this one.
TimeHorizon == SpawnInterval

\* lastAcquire when trySpawnParticle has not called acquire() in this frame.
NoAcquire == [attempted |-> FALSE, poolIndex |-> NULL, index |-> NULL]

\* animate(): requestAnimationFrame has fired; delta = clock.getDelta().
Animate(d) ==
    /\ pc = "idle"
    /\ delta' = d
    /\ pc' = "spawn"
    /\ lastSpawnTime' = Max(lastSpawnTime - d, -TimeHorizon)
    /\ UNCHANGED <<lastAcquire, isMouseDown, pointerOnPlane, matVars, modelVars>>
    /\ UNCHANGED <<blendVars, auxVars>>

\* The condition under which trySpawnParticle takes the per-gradient pools.
UseGradientPools ==
    /\ useMultiGradientPools
    /\ Len(settings.gradientSets) >= 2
    /\ settings.multiGradientMode = "random"

\* Faulty guards of trySpawnParticle: the null check of worldPos is missing.
SpawnDueWithoutPosition ==
    /\ isMouseDown
    /\ isModelLoaded
    /\ ~(now - lastSpawnTime < SpawnInterval)

\* Faulty guards of trySpawnParticle: the spawn interval is not checked.
SpawnDueWithoutInterval ==
    /\ isMouseDown
    /\ isModelLoaded
    /\ pointerOnPlane

\* Faulty guards of trySpawnParticle: isModelLoaded is not checked.
SpawnDueWithoutModel ==
    /\ isMouseDown
    /\ ~(now - lastSpawnTime < SpawnInterval)
    /\ pointerOnPlane

\* The guards of trySpawnParticle before a pool is chosen.
SpawnDue ==
    /\ isMouseDown
    /\ isModelLoaded
    /\ ~(now - lastSpawnTime < SpawnInterval)
    /\ pointerOnPlane

\* A faulty multi-gradient branch that falls back to the main pool when the
\* chosen pool is exhausted.
SpawnInGradientPoolWithFallback(poolIndex) ==
    LET got  == Acquire(gradientPools[poolIndex + 1].pool)
        main == Acquire(particlePool)
    IN
    /\ lastAcquire' = [attempted |-> TRUE, poolIndex |-> poolIndex, index |-> got.index]
    /\ IF got.index = NULL
       THEN /\ UNCHANGED gradientPools
            /\ IF main.index = NULL
               THEN UNCHANGED <<particlePool, lastSpawnTime>>
               ELSE /\ particlePool' = PoolSet(main.pool, Particle(main.index, -1))
                    /\ lastSpawnTime' = now
       ELSE /\ gradientPools' =
                 [gradientPools EXCEPT ![poolIndex + 1].pool =
                      PoolSet(got.pool, Particle(got.index, poolIndex))]
            /\ lastSpawnTime' = now
            /\ UNCHANGED particlePool

\* The multi-gradient branch with pool poolIndex = floor(random * length).
SpawnInGradientPool(poolIndex) ==
    LET got == Acquire(gradientPools[poolIndex + 1].pool) IN
    /\ lastAcquire' = [attempted |-> TRUE, poolIndex |-> poolIndex, index |-> got.index]
    /\ IF got.index = NULL
       THEN UNCHANGED <<gradientPools, lastSpawnTime>>
       ELSE /\ gradientPools' =
                 [gradientPools EXCEPT ![poolIndex + 1].pool =
                      PoolSet(got.pool, Particle(got.index, poolIndex))]
            /\ lastSpawnTime' = now
    /\ UNCHANGED particlePool

\* A faulty single-pool branch that advances lastSpawnTime although acquire()
\* returned null.
SpawnInMainPoolAdvancingTime ==
    LET got == Acquire(particlePool) IN
    /\ lastAcquire' = [attempted |-> TRUE, poolIndex |-> -1, index |-> got.index]
    /\ IF got.index = NULL
       THEN UNCHANGED particlePool
       ELSE particlePool' = PoolSet(got.pool, Particle(got.index, -1))
    /\ lastSpawnTime' = now
    /\ UNCHANGED gradientPools

\* The single-pool branch.
SpawnInMainPool ==
    LET got == Acquire(particlePool) IN
    /\ lastAcquire' = [attempted |-> TRUE, poolIndex |-> -1, index |-> got.index]
    /\ IF got.index = NULL
       THEN UNCHANGED <<particlePool, lastSpawnTime>>
       ELSE /\ particlePool' = PoolSet(got.pool, Particle(got.index, -1))
            /\ lastSpawnTime' = now
    /\ UNCHANGED gradientPools

\* trySpawnParticle(performance.now())
\* trySpawnParticle(performance.now()): what it does to the pools.
SpawnDecision ==
    IF ~SpawnDue
    THEN /\ lastAcquire' = NoAcquire
         /\ UNCHANGED <<particlePool, gradientPools, lastSpawnTime>>
    ELSE IF UseGradientPools
         THEN \E poolIndex \in 0..(Len(gradientPools) - 1) :
                  SpawnInGradientPool(poolIndex)
         ELSE SpawnInMainPool

TrySpawnParticle ==
    /\ pc = "spawn"
    /\ pc' = "update"
    /\ SpawnDecision
    /\ UNCHANGED <<delta, isMouseDown, pointerOnPlane, settings, customMaterial,
                   originalMaterial, useMultiGradientPools, scene, modelVars>>
    /\ UNCHANGED <<blendVars, auxVars>>

\* updateSingleParticle up to the lifespan check: the particle after
\* "particle.age += delta".
UpdateSingleParticle(particle) == [particle EXCEPT !.age = @ + delta]

\* A faulty lifespan check that lets a particle live one frame longer.
MarkedWhenAgeExceeds(particle) == particle.age > particle.lifespan

\* A faulty lifespan check that reads the setting and not the particle.
MarkedBySetting(particle) == particle.age >= settings.lifespan

\* The value updateSingleParticle returns: true marks the particle for removal.
MarkedForRemoval(particle) == particle.age >= particle.lifespan

\* One pool's pass of updateParticles: every particle is updated, the ones
\* not marked get their instance written, the marked ones are released.
RECURSIVE WriteInstances(_, _)
WriteInstances(pool, indices) ==
    IF indices = << >> THEN pool
    ELSE WriteInstances(UpdateInstance(pool, Head(indices)), Tail(indices))

UpdatePool(pool) ==
    IF Len(pool.particles) = 0 THEN pool
    ELSE LET aged == [i \in 1..Len(pool.particles) |->
                          UpdateSingleParticle(pool.particles[i])]
             particlesToRemove == KeySeq(SelectSeq(aged, MarkedForRemoval))
             kept == KeySeq(SelectSeq(aged, LAMBDA p : ~MarkedForRemoval(p)))
         IN ReleaseAll(WriteInstances([pool EXCEPT !.particles = aged], kept),
                       particlesToRemove)

\* A faulty updateParticles that leaves the per-gradient pools alone.
UpdatePassMainOnly ==
    /\ particlePool' = UpdatePool(particlePool)
    /\ gradientPools' = gradientPools

\* updateParticles(delta): every pool is updated and committed in turn.
UpdatePass ==
    /\ particlePool' = UpdatePool(particlePool)
    /\ gradientPools' =
          IF useMultiGradientPools
          THEN [i \in 1..Len(gradientPools) |->
                    [gradientPools[i] EXCEPT !.pool = UpdatePool(@)]]
          ELSE gradientPools

\* updateParticles(delta); renderer.render follows and ends the frame.
UpdateParticles ==
    /\ pc = "update"
    /\ pc' = "idle"
    /\ delta' = 0
    /\ lastAcquire' = NoAcquire
    /\ UpdatePass
    /\ UNCHANGED <<settings, customMaterial, originalMaterial,
                   useMultiGradientPools, scene, modelVars, inputVars>>
    /\ UNCHANGED <<blendVars, auxVars>>

Next ==
    \/ MouseDown
    \/ MouseUp
    \/ MouseMove
    \/ LoadSuccess
    \/ ClearModel
    \/ MaterialToggleClick
    \/ AddGradient
    \/ \E index \in 1..(MaxGradientSets - 1) : DeleteGradient(index)
    \/ \E mode \in {"random", "time"} : MultiGradientModeChange(mode)
    \/ \E value \in Lifespans : LifespanInput(value)
    \/ \E d \in Deltas : Animate(d)
    \/ TrySpawnParticle
    \/ UpdateParticles

Spec == Init /\ [][Next]_vars

\* ================================================================ claims
\* Every ParticlePool object the program holds.
AllPools == {particlePool} \cup {gradientPools[i].pool : i \in 1..Len(gradientPools)}

\* init() has run on the pool.
Initialised(pool) == pool.instancedMesh # NoMesh

FreeSet(pool) == {pool.freeIndices[i] : i \in 1..Len(pool.freeIndices)}

NoDuplicates(seq) == \A i, j \in 1..Len(seq) : i # j => seq[i] # seq[j]

\* A step of the frame.
SpawnStep == pc = "spawn" /\ pc' = "update"
UpdateStep == pc = "update" /\ pc' = "idle"

\* The pools of a frame step, before and after: the main pool as 0, the
\* per-gradient pool i as i.
FramePools == 0..Len(gradientPools)
PoolBefore(k) == IF k = 0 THEN particlePool ELSE gradientPools[k].pool
PoolAfter(k) == IF k = 0 THEN particlePool' ELSE gradientPools'[k].pool

ParticleAt(pool, index) ==
    CHOOSE p \in {pool.particles[i] : i \in 1..Len(pool.particles)} : p.index = index

\* ---------------------------------------------------------------- C1
\* C1 as stated: for every ParticlePool, in every reachable state (after
\* construction, init, acquire, release, clear),
\* activeCount + freeIndices.length == maxCount.
C1_CountEveryPool ==
    \A pool \in AllPools :
        pool.activeCount + Len(pool.freeIndices) = pool.maxCount

\* C1 amended: for every ParticlePool on which init() has run,
\* activeCount + freeIndices.length == maxCount in every reachable state; a
\* pool that was constructed and not initialised (the placeholder of init()
\* and clearModel()) has activeCount 0 and no free index.
C1_CountInitialisedPool ==
    \A pool \in AllPools :
        IF Initialised(pool)
        THEN pool.activeCount + Len(pool.freeIndices) = pool.maxCount
        ELSE pool.activeCount = 0 /\ pool.freeIndices = << >>

\* C1 witness: the main pool after two acquires and one release.
C1_Witness ==
    /\ Initialised(particlePool)
    /\ particlePool.activeCount = 1
    /\ particlePool.freeIndices = <<1>>

\* ---------------------------------------------------------------- C2
\* The slots of a pool are partitioned between live particles and the free
\* list, with no index twice on either side.
SlotsPartitioned(pool) ==
    /\ Keys(pool) \cap FreeSet(pool) = {}
    /\ NoDuplicates(pool.freeIndices)
    /\ NoDuplicates(KeySeq(pool.particles))
    /\ Keys(pool) \cup FreeSet(pool) = 0..(pool.maxCount - 1)

\* C2 as stated: for every pool at every tick boundary the keys of
\* pool.particles and freeIndices are disjoint, hold no duplicates and
\* together are exactly {0..maxCount-1}.
C2_PartitionEveryPool ==
    pc = "idle" => \A pool \in AllPools : SlotsPartitioned(pool)

\* C2 amended: for every pool on which init() has run, at every tick boundary
\* the keys of pool.particles and freeIndices are disjoint, hold no
\* duplicates and together are exactly {0..maxCount-1}; a pool that was not
\* initialised holds no particle and no free index.
C2_PartitionInitialisedPool ==
    pc = "idle" =>
        \A pool \in AllPools :
            IF Initialised(pool)
            THEN SlotsPartitioned(pool)
            ELSE Keys(pool) = {} /\ FreeSet(pool) = {}

\* C2 witness: a tick boundary at which a per-gradient pool holds a live
\* particle while the main pool has had a slot released and another in use.
C2_Witness ==
    /\ pc = "idle"
    /\ \E i \in 1..Len(gradientPools) : Keys(gradientPools[i].pool) # {}
    /\ Keys(particlePool) # {}
    /\ particlePool.freeIndices = <<1>>

\* ---------------------------------------------------------------- C3
\* The pool acquire() was called on in the spawn step.
ChosenPool(acq) == PoolBefore(acq.poolIndex + 1)

\* C3: acquire() returns null exactly when the pool has no free slot; then
\* trySpawnParticle adds no particle and changes no pool state nor
\* lastSpawnTime; an index that is returned was the last free one, and it
\* holds the new particle afterwards.  After a release on a full pool the
\* next acquire succeeds.
C3_SpawnStep ==
    (SpawnStep /\ lastAcquire'.attempted) =>
        LET acq == lastAcquire'
            pool == ChosenPool(acq)
        IN /\ (acq.index = NULL) <=> (Len(pool.freeIndices) = 0)
           /\ acq.index = NULL =>
                  UNCHANGED <<particlePool, gradientPools, lastSpawnTime>>
           /\ acq.index # NULL =>
                  /\ acq.index = pool.freeIndices[Len(pool.freeIndices)]
                  /\ acq.index \in Keys(PoolAfter(acq.poolIndex + 1))

C3_ReleaseThenAcquire ==
    \A pool \in AllPools :
        (Initialised(pool) /\ pool.freeIndices = << >>) =>
            /\ Acquire(pool).index = NULL
            /\ \A index \in Keys(pool) : Acquire(Release(pool, index)).index = index

C3_AcquireNullWhenExhausted == [][C3_SpawnStep /\ C3_ReleaseThenAcquire]_vars

\* C3 witness: trySpawnParticle has called acquire() on a full pool.
C3_Witness ==
    /\ pc = "update"
    /\ lastAcquire.attempted
    /\ lastAcquire.index = NULL
    /\ lastAcquire.poolIndex = -1
    /\ Len(particlePool.particles) = PoolCapacity

\* ---------------------------------------------------------------- C4
\* C4: the update pass releases a particle in the first frame in which its
\* age, the sum of the deltas since its spawn (the spawn frame's included),
\* is >= its lifespan, and in no earlier frame: in the update step a
\* particle of age a stays, with age a + delta, exactly when
\* a + delta < lifespan; otherwise its slot goes back to the free list.  No
\* other step changes an age, and a spawned particle starts with age 0
\* before the update step of its frame.
C4_UpdateStep ==
    UpdateStep =>
        \A k \in FramePools :
            \A index \in Keys(PoolBefore(k)) :
                LET p == ParticleAt(PoolBefore(k), index) IN
                IF p.age + delta < p.lifespan
                THEN /\ index \in Keys(PoolAfter(k))
                     /\ ParticleAt(PoolAfter(k), index).age = p.age + delta
                ELSE /\ index \notin Keys(PoolAfter(k))
                     /\ index \in FreeSet(PoolAfter(k))

C4_OtherSteps ==
    (~UpdateStep) =>
        \A pool \in AllPools' :
            \A index \in Keys(pool) :
                LET q == ParticleAt(pool, index) IN
                \/ \E old \in AllPools :
                       /\ index \in Keys(old)
                       /\ ParticleAt(old, index).age = q.age
                       /\ old.instancedMesh = pool.instancedMesh
                \/ SpawnStep /\ q.age = 0

C4_RemovedWhenAgeReachesLifespan == [][C4_UpdateStep /\ C4_OtherSteps]_vars

\* C4 witness: two particles of the main pool have been released by the
\* update pass, the one spawned first before the other.
C4_Witness ==
    /\ pc = "idle"
    /\ Initialised(particlePool)
    /\ particlePool.freeIndices = <<1, 0>>

\* ---------------------------------------------------------------- C5
\* C5: a particle's lifespan is settings.lifespan at its spawn; no later
\* step, a change of settings.lifespan included, changes it, and the update
\* step removes the particle by its own lifespan, not by the setting.
C5_Step ==
    /\ \A k \in FramePools :
           (SpawnStep \/ UpdateStep) =>
               \A index \in Keys(PoolAfter(k)) :
                   LET q == ParticleAt(PoolAfter(k), index) IN
                   IF index \in Keys(PoolBefore(k))
                   THEN q.lifespan = ParticleAt(PoolBefore(k), index).lifespan
                   ELSE q.lifespan = settings.lifespan
    /\ (settings'.lifespan # settings.lifespan) =>
           UNCHANGED <<particlePool, gradientPools>>
    /\ UpdateStep =>
           \A k \in FramePools :
               \A index \in Keys(PoolBefore(k)) :
                   LET p == ParticleAt(PoolBefore(k), index) IN
                   (index \in Keys(PoolAfter(k))) <=> (p.age + delta < p.lifespan)

C5_LifespanFixedAtSpawn == [][C5_Step]_vars

\* C5 witness: a live particle that the changed setting would have removed:
\* its age has reached settings.lifespan and not its own lifespan.
C5_Witness ==
    /\ pc = "idle"
    /\ \E pool \in AllPools :
           \E index \in Keys(pool) :
               LET p == ParticleAt(pool, index) IN
               /\ p.lifespan # settings.lifespan
               /\ p.age >= settings.lifespan
               /\ p.age < p.lifespan

\* ---------------------------------------------------------------- C6
\* The conditions of random-per-particle mode.
RandomPerParticleMode ==
    /\ settings.materialEnabled
    /\ isModelLoaded
    /\ Len(settings.gradientSets) >= 2
    /\ settings.multiGradientMode = "random"

\* C6: in random-per-particle mode (material enabled, a model loaded, at
\* least 2 gradient sets, multiGradientMode 'random') gradientPools holds
\* exactly one pool+material pair per gradient set, entry i bound to
\* gradient i, in every reachable state.
C6_OnePoolPerGradient ==
    RandomPerParticleMode =>
        /\ Len(gradientPools) = Len(settings.gradientSets)
        /\ \A i \in 1..Len(gradientPools) :
               /\ gradientPools[i].gradientIndex = i - 1
               /\ gradientPools[i].material = GradientMaterial(i - 1)
               /\ gradientPools[i].mesh.geometry = loadedGeometry

\* ---------------------------------------------------------------- C7
\* C7: in every reachable state where the custom material is disabled, or
\* multiGradientMode is not 'random', or fewer than 2 gradient sets exist,
\* gradientPools is empty and useMultiGradientPools is false, so that no
\* particle of a torn-down pool is live.
C7_TornDownOutsideRandomMode ==
    (\/ ~settings.materialEnabled
     \/ settings.multiGradientMode # "random"
     \/ Len(settings.gradientSets) < 2) =>
        /\ gradientPools = << >>
        /\ ~useMultiGradientPools

\* ---------------------------------------------------------------- C8
\* The meshes of the pools the program holds.
PoolMeshes == {pool.instancedMesh : pool \in AllPools} \ {NoMesh}

\* C8: after a model load completes or clearModel runs, no pool created for
\* a previous shape remains in the scene or holds live particles: every
\* mesh in the scene and every pool mesh is of the loaded geometry, after
\* clearModel no mesh is in the scene and no pool holds a particle, and a
\* load or a clearModel leaves the main pool with zero live particles.
C8_NoPoolOfOldShape ==
    /\ \A mesh \in scene \cup PoolMeshes : mesh.geometry = loadedGeometry
    /\ ~isModelLoaded =>
           /\ scene = {}
           /\ \A pool \in AllPools : Keys(pool) = {}

\* ---------------------------------------------------------------- C9
\* C9: a spawned particle is placed in a per-gradient pool, of an index in
\* range of gradientPools, exactly when random-per-particle mode is in
\* effect, and in the main pool in every other case; the live count of a
\* pool never exceeds its capacity.
C9_SpawnRouting ==
    /\ (pc = "update" /\ lastAcquire.attempted /\ lastAcquire.index # NULL) =>
           /\ (lastAcquire.poolIndex >= 0) <=> RandomPerParticleMode
           /\ lastAcquire.poolIndex < Len(gradientPools)
    /\ \A pool \in AllPools : Len(pool.particles) <= pool.maxCount

\* --------------------------------------------------------------- C10
\* C10: in a frame in which isMouseDown is false, or isModelLoaded is false,
\* or the pointer has no world position, trySpawnParticle does not call
\* acquire(), changes no pool and does not advance lastSpawnTime; the update
\* pass of a frame adds no particle to any pool.
C10_Step ==
    /\ (SpawnStep /\ (~isMouseDown \/ ~isModelLoaded \/ ~pointerOnPlane)) =>
           /\ ~lastAcquire'.attempted
           /\ UNCHANGED <<particlePool, gradientPools, lastSpawnTime>>
    /\ UpdateStep =>
           \A k \in FramePools : Keys(PoolAfter(k)) \subseteq Keys(PoolBefore(k))

C10_NoSpawnWithoutTriggerModelPointer == [][C10_Step]_vars

\* C10 witness: trySpawnParticle returned at the missing pointer position
\* although the trigger was down, a model loaded, the spawn interval elapsed
\* and a slot free.
C10_Witness ==
    /\ pc = "update"
    /\ ~lastAcquire.attempted
    /\ isMouseDown /\ isModelLoaded /\ ~pointerOnPlane
    /\ now - lastSpawnTime >= SpawnInterval
    /\ Len(particlePool.freeIndices) > 0

\* --------------------------------------------------------------- C11
\* Values of the density slider: spawn intervals of 2 units and of 1 unit.
Densities == {10, 20}

\* The state when init() has returned and the density slider has been set.
TimingInit ==
    /\ delta = 0
    /\ pc = "idle"
    /\ isMouseDown = FALSE
    /\ pointerOnPlane = TRUE
    /\ lastSpawnTime = 0
    /\ \E density \in Densities :
           settings = [density           |-> density,
                       lifespan          |-> 3,
                       materialEnabled   |-> FALSE,
                       multiGradientMode |-> "random",
                       gradientSets      |-> << [type |-> "radial"] >>]
    /\ particlePool = ParticlePool(PoolCapacity)
    /\ loadedGeometry = 0
    /\ loadedMaterial = 0
    /\ isModelLoaded = FALSE
    /\ customMaterial = NoMaterial
    /\ originalMaterial = NoMaterial
    /\ gradientPools = << >>
    /\ useMultiGradientPools = FALSE
    /\ scene = {}
    /\ lastAcquire = NoAcquire
    /\ BlendInit
    /\ AuxInit

\* The engine at a constant density of 10 or of 20 spawns per second.
TimingSpec == TimingInit /\ [][Next]_vars

RECURSIVE SumLive(_, _)
SumLive(pools, k) ==
    IF k > Len(pools) THEN 0
    ELSE Len(pools[k].pool.particles) + SumLive(pools, k + 1)

\* The live particles of all pools.
LiveParticles == Len(particlePool.particles) + SumLive(gradientPools, 1)

\* C11: with density constant, lastSpawnTime is the instant of the last
\* press or of the last successful spawn, whichever is later (a press and a
\* successful spawn set it to the current instant, a frame only lets it
\* age, no other step touches it); a spawn succeeds only when at least
\* 1000/density ms have passed since that instant, so two consecutive
\* spawns, and a press and the first spawn after it, are at least
\* 1000/density ms apart; a frame spawns at most one particle.
C11_Step ==
    /\ settings'.density = settings.density
    /\ (SpawnStep /\ LiveParticles' # LiveParticles) =>
           /\ now - lastSpawnTime >= SpawnInterval
           /\ SpawnInterval * 50 * settings.density = 1000
           /\ lastSpawnTime' = now
           /\ LiveParticles' = LiveParticles + 1
    /\ (pc = "idle" /\ ~isMouseDown /\ isMouseDown') => lastSpawnTime' = now
    /\ (pc = "idle" /\ pc' = "spawn") =>
           lastSpawnTime' = Max(lastSpawnTime - delta', -TimeHorizon)
    /\ (lastSpawnTime' > lastSpawnTime) =>
           \/ SpawnStep /\ LiveParticles' = LiveParticles + 1
           \/ pc = "idle" /\ isMouseDown' /\ pc' = "idle"
    /\ (~SpawnStep) => LiveParticles' <= LiveParticles

C11_SpawnsAtLeastIntervalApart == [][C11_Step]_vars

\* C11 witness: at an interval of 100 ms (density 10) a frame 50 ms after a
\* successful spawn: the press is held, the pointer has a position, a slot
\* is free, and trySpawnParticle returned at the interval check.
C11_Witness ==
    /\ pc = "update"
    /\ SpawnInterval = 2
    /\ ~lastAcquire.attempted
    /\ isMouseDown /\ isModelLoaded /\ pointerOnPlane
    /\ lastSpawnTime = -1
    /\ Len(particlePool.particles) = 1
    /\ Len(particlePool.freeIndices) > 0

\* ============================================= the gradient blend controller
\* The controller reads the gradient settings, the custom material and its
\* shader, and nothing of the particles; the pools read nothing of the
\* controller.  BlendSpec follows the controller and the material system
\* with the trigger up: its frame is animate() with trySpawnParticle
\* returning at the first guard and no particle to update.

\* gradientMixRatio counts in units of 1 / MixScale.
MixScale == 4

\* Most gradient sets in BlendSpec (5 in the code).
MaxBlendGradients == 3

\* Values of the gradient-cycle-speed slider, in units of 1 / MixScale per
\* unit of time.
CycleSpeeds == {1, 2}

Min(a, b) == IF a <= b THEN a ELSE b

\* A linear ramp in place of the easing.
LinearStep(edge0, edge1, x) ==
    LET t == Max(0, Min(MixScale, ((x - edge0) * MixScale) \div (edge1 - edge0)))
    IN t * MixScale * MixScale

\* smoothstep(edge0, edge1, x) with x and the edges in units of 1 / MixScale;
\* the value is in units of 1 / MixScale^3.
Smoothstep(edge0, edge1, x) ==
    LET t == Max(0, Min(MixScale, ((x - edge0) * MixScale) \div (edge1 - edge0)))
    IN t * t * (3 * MixScale - 2 * t)

\* gradientTextures[i] || undefined
TextureAt(textures, i) == IF i < Len(textures) THEN textures[i + 1] ELSE NoTexture

\* The textures the material system holds, as the handlers pass them on.
BlendState ==
    [gradientTextures |-> gradientTextures, matcap |-> matcap, shader |-> shader]

SetBlendState(b) ==
    /\ gradientTextures' = b.gradientTextures
    /\ matcap' = b.matcap
    /\ shader' = b.shader

RegenerateGradientTextures(st) ==
    [i \in 1..Len(st.settings.gradientSets) |-> Texture(i - 1)]

\* createCustomMaterial(): the textures are regenerated and the new material
\* starts with the first of them; its shader is not compiled yet.
CreateCustomMaterialTextures(b, st) ==
    IF ~matcapGenerator THEN [b EXCEPT !.matcap = NoTexture, !.shader = NoShader]
    ELSE LET textures == RegenerateGradientTextures(st)
         IN [gradientTextures |-> textures,
             matcap           |-> IF TextureAt(textures, 0) # NoTexture
                                  THEN TextureAt(textures, 0) ELSE Texture(0),
             shader           |-> NoShader]

\* What toggleMaterialMode(enabled) does to the textures, called in state st.
ToggleBlend(b, st, enabled) ==
    IF st.particlePool.instancedMesh = NoMesh THEN b
    ELSE IF enabled THEN CreateCustomMaterialTextures(b, st)
    ELSE [b EXCEPT !.matcap = NoTexture, !.shader = NoShader]

\* toggleMaterialMode(false); toggleMaterialMode(true);
ReToggleBlend(b, st) ==
    ToggleBlend(ToggleBlend(b, st, FALSE), ToggleMaterialMode(st, FALSE), TRUE)

\* updateMaterial() with settings.activeGradientIndex = activeGradientIndex
UpdateMaterial(b, st, activeGradientIndex) ==
    IF \/ ~st.settings.materialEnabled
       \/ st.particlePool.instancedMesh = NoMesh
       \/ ~matcapGenerator
       \/ st.customMaterial = NoMaterial
    THEN b
    ELSE [b EXCEPT !.matcap =
              Texture(IF activeGradientIndex < Len(st.settings.gradientSets)
                      THEN activeGradientIndex ELSE 0)]

controllerVars == <<currentGradientA, currentGradientB, gradientMixRatio,
                    gradientCycleSpeed>>

\* ------------------------------------------------- handlers in BlendSpec
BlendToggleClick ==
    /\ pc = "idle"
    /\ SetMatState(ToggleMaterialMode(MatState, ~settings.materialEnabled))
    /\ SetBlendState(ToggleBlend(BlendState, MatState, ~settings.materialEnabled))
    /\ UNCHANGED <<modelVars, inputVars, frameVars, controllerVars>>
    /\ UNCHANGED auxVars

\* The add-gradient button, but for what it does to the editor.
PushGradient ==
    /\ pc = "idle"
    /\ Len(settings.gradientSets) < MaxBlendGradients
    /\ LET st == [MatState EXCEPT
                    !.settings.gradientSets = Append(@, [type |-> "radial"])]
           re == st.settings.materialEnabled /\ st.settings.multiGradientMode = "random"
       IN /\ SetMatState(IF re THEN ReToggle(st) ELSE st)
          /\ SetBlendState(IF re THEN ReToggleBlend(BlendState, st) ELSE BlendState)
    /\ UNCHANGED <<modelVars, inputVars, frameVars, controllerVars>>

BlendAddGradient ==
    /\ PushGradient
    /\ UNCHANGED auxVars

BlendDeleteGradient(index) ==
    /\ pc = "idle"
    /\ index > 0
    /\ index < Len(settings.gradientSets)
    /\ Len(settings.gradientSets) > 1
    /\ LET st == [MatState EXCEPT
                    !.settings.gradientSets =
                        [i \in 1..(Len(@) - 1) |-> IF i <= index THEN @[i] ELSE @[i + 1]]]
           re == st.settings.materialEnabled
       IN /\ SetMatState(IF re THEN ReToggle(st) ELSE st)
          /\ SetBlendState(IF re THEN ReToggleBlend(BlendState, st) ELSE BlendState)
    /\ UNCHANGED <<modelVars, inputVars, frameVars, controllerVars>>
    /\ UNCHANGED auxVars

BlendModeChange(mode) ==
    /\ pc = "idle"
    /\ mode # settings.multiGradientMode
    /\ LET st == [MatState EXCEPT !.settings.multiGradientMode = mode]
           re == st.settings.materialEnabled
       IN /\ SetMatState(IF re THEN ReToggle(st) ELSE st)
          /\ SetBlendState(IF re THEN ReToggleBlend(BlendState, st) ELSE BlendState)
    /\ UNCHANGED <<modelVars, inputVars, frameVars, controllerVars>>
    /\ UNCHANGED auxVars

\* A click on the header of a gradient: it becomes the active gradient and
\* updateMaterial() runs.
SelectGradient(index) ==
    /\ pc = "idle"
    /\ index < Len(settings.gradientSets)
    /\ SetBlendState(UpdateMaterial(BlendState, MatState, index))
    /\ UNCHANGED <<matVars, modelVars, inputVars, frameVars, controllerVars>>
    /\ UNCHANGED auxVars

\* setupSlider('gradient-cycle-speed', 'gradientCycleSpeed', settings)
CycleSpeedInput(value) ==
    /\ pc = "idle"
    /\ value # gradientCycleSpeed
    /\ gradientCycleSpeed' = value
    /\ UNCHANGED <<matVars, modelVars, inputVars, frameVars, currentGradientA,
                   currentGradientB, gradientMixRatio, gradientTextures, matcap,
                   shader>>
    /\ UNCHANGED auxVars

\* ---------------------------------------------------- frame in BlendSpec
\* The pair after a completed transition.
RotatePair(pair, numGradients) == <<pair[2], (pair[2] + 1) % numGradients>>

\* updateMultiGradient and updateGradientLerp get past their early returns.
ControllerRuns ==
    /\ Len(settings.gradientSets) >= 2
    /\ settings.multiGradientMode = "time"
    /\ customMaterial # NoMaterial
    /\ shader.compiled

\* updateGradientLerp(delta) past its early return.
UpdateGradientLerp(d) ==
    LET numGradients == Len(settings.gradientSets)
        advanced == gradientMixRatio + d * gradientCycleSpeed
        wraps == advanced >= MixScale
        ratio == IF wraps THEN 0 ELSE advanced
        pair == IF wraps
                THEN RotatePair(<<currentGradientA, currentGradientB>>, numGradients)
                ELSE <<currentGradientA, currentGradientB>>
    IN /\ gradientMixRatio' = ratio
       /\ currentGradientA' = pair[1]
       /\ currentGradientB' = pair[2]
       /\ matcap' = IF wraps /\ TextureAt(gradientTextures, pair[1]) # NoTexture
                    THEN TextureAt(gradientTextures, pair[1]) ELSE matcap
       /\ shader' = [shader EXCEPT
                       !.matcap2 = IF wraps /\ TextureAt(gradientTextures, pair[2]) # NoTexture
                                   THEN TextureAt(gradientTextures, pair[2]) ELSE @,
                       !.mixRatio = Smoothstep(0, MixScale, ratio)]

\* updateMultiGradient(delta)
UpdateMultiGradient(d) ==
    IF ControllerRuns
    THEN UpdateGradientLerp(d)
    ELSE UNCHANGED <<gradientMixRatio, currentGradientA, currentGradientB,
                     matcap, shader>>

\* animate() up to the render call: delta = clock.getDelta(), the controller
\* ticks, trySpawnParticle returns at its first guard (the trigger is up)
\* and updateParticles finds no particle.
BlendFrame(d) ==
    /\ pc = "idle"
    /\ ~isMouseDown
    /\ LiveParticles = 0
    /\ delta' = d
    /\ pc' = "render"
    /\ lastSpawnTime' = Max(lastSpawnTime - d, -TimeHorizon)
    /\ UpdateMultiGradient(d)
    /\ UNCHANGED <<lastAcquire, isMouseDown, pointerOnPlane, matVars, modelVars,
                   gradientCycleSpeed, gradientTextures>>
    /\ UNCHANGED auxVars

\* renderer.render(scene, camera): the first render of a mesh that carries
\* the custom material runs onBeforeCompile, which creates the uniforms.
CompileShader ==
    IF /\ particlePool.instancedMesh \in scene
       /\ customMaterial # NoMaterial
       /\ particlePool.material = customMaterial
       /\ ~shader.compiled
    THEN [compiled |-> TRUE,
          matcap2  |-> IF TextureAt(gradientTextures, 1) # NoTexture
                       THEN TextureAt(gradientTextures, 1)
                       ELSE TextureAt(gradientTextures, 0),
          mixRatio |-> 0]
    ELSE shader

Render ==
    /\ pc = "render"
    /\ pc' = "idle"
    /\ delta' = 0
    /\ shader' = CompileShader
    /\ UNCHANGED <<lastAcquire, inputVars, matVars, modelVars, controllerVars,
                   gradientTextures, matcap>>
    /\ UNCHANGED auxVars

BlendNext ==
    \/ LoadSuccess
    \/ ClearModel
    \/ BlendToggleClick
    \/ BlendAddGradient
    \/ \E index \in 1..(MaxBlendGradients - 1) : BlendDeleteGradient(index)
    \/ \E mode \in {"random", "time"} : BlendModeChange(mode)
    \/ \E index \in 0..(MaxBlendGradients - 1) : SelectGradient(index)
    \/ \E value \in CycleSpeeds : CycleSpeedInput(value)
    \/ \E d \in Deltas : BlendFrame(d)
    \/ Render

BlendSpec == Init /\ [][BlendNext]_vars

\* A frame of BlendSpec in which the controller ticks.
ControllerTick == pc = "idle" /\ pc' = "render" /\ ControllerRuns

\* --------------------------------------------------------------- C12
\* C12: in timeCycle mode with N >= 2 gradients a controller tick adds
\* cycleSpeed * dt to mixRatio; when the result is >= 1 the ratio is reset
\* to 0 and (indexA, indexB) becomes (indexB, (indexB + 1) mod N), once;
\* after every tick 0 <= mixRatio < 1 and indexB = (indexA + 1) mod N.
C12_Step ==
    ControllerTick =>
        LET N == Len(settings.gradientSets)
            sum == gradientMixRatio + gradientCycleSpeed * delta'
        IN /\ IF sum >= MixScale
              THEN /\ gradientMixRatio' = 0
                   /\ currentGradientA' = currentGradientB
                   /\ currentGradientB' = (currentGradientB + 1) % N
              ELSE /\ gradientMixRatio' = sum
                   /\ currentGradientA' = currentGradientA
                   /\ currentGradientB' = currentGradientB
           /\ 0 <= gradientMixRatio' /\ gradientMixRatio' < MixScale
           /\ currentGradientB' = (currentGradientA' + 1) % N

C12_TickKeepsAdjacentPair == [][C12_Step]_vars

\* --------------------------------------------------------------- C13
RECURSIVE PairAfterWraps(_, _, _)
PairAfterWraps(pair, numGradients, wraps) ==
    IF wraps = 0 THEN pair
    ELSE PairAfterWraps(RotatePair(pair, numGradients), numGradients, wraps - 1)

\* C13: in timeCycle mode with a gradient set of size N that stays fixed,
\* after exactly N completed wraps (indexA, indexB) is the pair it started
\* from, and over those N wraps every index 0..N-1 is indexA exactly once.
C13_RoundRobin ==
    (Len(settings.gradientSets) >= 2 /\ settings.multiGradientMode = "time") =>
        LET N == Len(settings.gradientSets)
            start == <<currentGradientA, currentGradientB>>
            indexA(k) == PairAfterWraps(start, N, k)[1]
        IN /\ PairAfterWraps(start, N, N) = start
           /\ {indexA(k) : k \in 1..N} = 0..(N - 1)

\* --------------------------------------------------------------- C14
\* C14: in timeCycle mode, at every tick boundary the primary texture of the
\* custom material is the texture of gradient indexA and its matcap2
\* texture is the texture of gradient indexB, also after toggleMaterialMode
\* has rebuilt the material and after updateMaterial has run.
C14_TexturesFollowPair ==
    (/\ pc = "idle"
     /\ settings.materialEnabled
     /\ ControllerRuns) =>
        /\ matcap = Texture(currentGradientA)
        /\ shader.matcap2 = Texture(currentGradientB)

\* --------------------------------------------------------------- C15
\* t*t*(3 - 2t) for t = clamp(ratio, 0, 1), in units of 1 / MixScale^3.
Eased(ratio) ==
    LET t == IF ratio < 0 THEN 0 ELSE IF ratio > MixScale THEN MixScale ELSE ratio
    IN t * t * (3 * MixScale - 2 * t)

\* C15: after every controller tick the blend uniform is
\* t*t*(3 - 2t) with t = clamp(mixRatio, 0, 1), not mixRatio itself; it lies
\* in [0, 1], and it is 0 in the tick in which the ratio wraps.
C15_Step ==
    ControllerTick =>
        /\ shader'.mixRatio = Eased(gradientMixRatio')
        /\ 0 <= shader'.mixRatio
        /\ shader'.mixRatio <= MixScale * MixScale * MixScale
        /\ (gradientMixRatio + gradientCycleSpeed * delta' >= MixScale) =>
               shader'.mixRatio = 0
        /\ (0 < gradientMixRatio' /\ 2 * gradientMixRatio' < MixScale) =>
               shader'.mixRatio < gradientMixRatio' * MixScale * MixScale
        /\ (2 * gradientMixRatio' > MixScale) =>
               shader'.mixRatio > gradientMixRatio' * MixScale * MixScale

C15_UniformIsEased == [][C15_Step]_vars

\* C15 witness: the controller has ticked to a mixRatio of 1/4, where the
\* eased value is 10/64 and the raw ratio is 16/64.
C15_Witness ==
    /\ pc = "render"
    /\ ControllerRuns
    /\ 4 * gradientMixRatio = MixScale
    /\ 32 * shader.mixRatio = 5 * MixScale * MixScale * MixScale

\* =====================================================================
\* The scale of a particle: at its spawn and over its exit.
\* =====================================================================

\* Scales count in units of 1 / 24, so that every quotient below is exact.
Sizes == {24, 48}
ExitDurations == {0, 1, 2, 5}
DisappearModes == {"fade", "shrink", "snap"}
MouseSpeeds == {0, 25, 50, 100}
\* Math.random() in quarters: 0, 1/4, 1/2, 3/4
RandomQuarters == 0..3
SpeedReference == 50

\* THREE.MathUtils.lerp(x, y, num / den)
Lerp(x, y, num, den) == x + ((y - x) * num) \div den

\* trySpawnParticle: "Calculate scale based on size settings"
SpawnScale(random) ==
    IF scaleSettings.randomSize
    THEN Lerp(scaleSettings.sizeMin, scaleSettings.sizeMax, random, 4)
    ELSE IF scaleSettings.sizeBySpeed /\ mouseSpeed > 0
         THEN Lerp(scaleSettings.sizeMin, scaleSettings.sizeMax,
                   Min(mouseSpeed, SpeedReference), SpeedReference)
         ELSE scaleSettings.size

\* updateSingleParticle: the scale without the exit.
CurrentScaleWithoutExit(p) == p.initialScale

\* A faulty exit that scales by the remaining life over the exit duration
\* without checking that the exit has begun.
CurrentScaleUnguarded(p) ==
    LET timeRemaining == p.lifespan - p.age
        exitDuration  == Min(scaleSettings.exitDuration, p.lifespan)
    IN  IF /\ scaleSettings.disappearMode \in {"fade", "shrink"}
           /\ exitDuration > 0
        THEN (p.initialScale * timeRemaining) \div exitDuration
        ELSE p.initialScale

\* updateSingleParticle: "Apply disappear mode with exit duration control"
CurrentScale(p) ==
    LET timeRemaining == p.lifespan - p.age
        exitDuration  == Min(scaleSettings.exitDuration, p.lifespan)
    IN  IF /\ scaleSettings.disappearMode \in {"fade", "shrink"}
           /\ timeRemaining <= exitDuration
        THEN (p.initialScale * timeRemaining) \div exitDuration
        ELSE p.initialScale

\* The sliders and toggles of the size and exit controls.
SizeInput(value) ==
    /\ value # scaleSettings.size
    /\ scaleSettings' = [scaleSettings EXCEPT !.size = value]
    /\ UNCHANGED <<mouseSpeed, probe, loads, frameLog, moreVars>>

RandomSizeClick ==
    /\ scaleSettings' = [scaleSettings EXCEPT !.randomSize = ~@]
    /\ UNCHANGED <<mouseSpeed, probe, loads, frameLog, moreVars>>

SizeBySpeedClick ==
    /\ scaleSettings' = [scaleSettings EXCEPT !.sizeBySpeed = ~@]
    /\ UNCHANGED <<mouseSpeed, probe, loads, frameLog, moreVars>>

ExitDurationInput(value) ==
    /\ value # scaleSettings.exitDuration
    /\ scaleSettings' = [scaleSettings EXCEPT !.exitDuration = value]
    /\ UNCHANGED <<mouseSpeed, probe, loads, frameLog, moreVars>>

DisappearModeChange(mode) ==
    /\ mode # scaleSettings.disappearMode
    /\ scaleSettings' = [scaleSettings EXCEPT !.disappearMode = mode]
    /\ UNCHANGED <<mouseSpeed, probe, loads, frameLog, moreVars>>

\* onMouseMove: mouseSpeed = Math.sqrt(dx * dx + dy * dy)
MouseSpeedChange(speed) ==
    /\ speed # mouseSpeed
    /\ mouseSpeed' = speed
    /\ UNCHANGED <<scaleSettings, probe, loads, frameLog, moreVars>>

\* trySpawnParticle, past its guards, for the one slot followed here: the
\* particle takes its scale and its lifespan, and the slot is written by
\* the next update.
SpawnProbe(random) ==
    /\ ~probe.live
    /\ probe' = [live |-> TRUE, initialScale |-> SpawnScale(random),
                 age |-> 0, lifespan |-> settings.lifespan,
                 scale |-> SpawnScale(random),
                 instanceScale |-> probe.instanceScale]
    /\ UNCHANGED <<scaleSettings, mouseSpeed, loads, frameLog,
                   moreVars>>

\* updateSingleParticle and the release of updatePool for that slot.
UpdateProbe(d) ==
    /\ probe.live
    /\ LET aged == [probe EXCEPT !.age = @ + d]
       IN  probe' = IF aged.age >= aged.lifespan
                    THEN [aged EXCEPT !.live = FALSE, !.instanceScale = 0]
                    ELSE [aged EXCEPT !.scale = CurrentScale(aged),
                                      !.instanceScale = CurrentScale(aged)]
    /\ UNCHANGED <<scaleSettings, mouseSpeed, loads, frameLog,
                   moreVars>>

poolVars == <<delta, pc, isMouseDown, pointerOnPlane, lastSpawnTime,
              particlePool, loadedGeometry, loadedMaterial, isModelLoaded,
              customMaterial, originalMaterial, gradientPools,
              useMultiGradientPools, scene, lastAcquire>>

ScaleControls ==
    \/ \E value \in Sizes : SizeInput(value)
    \/ RandomSizeClick
    \/ SizeBySpeedClick
    \/ \E value \in ExitDurations : ExitDurationInput(value)
    \/ \E mode \in DisappearModes : DisappearModeChange(mode)
    \/ \E speed \in MouseSpeeds : MouseSpeedChange(speed)
    \/ \E random \in RandomQuarters : SpawnProbe(random)
    \/ \E d \in Deltas : UpdateProbe(d)

ScaleNext ==
    \/ ScaleControls /\ UNCHANGED <<poolVars, settings, blendVars>>
    \/ \E value \in Lifespans : LifespanInput(value)

ScaleSpec == Init /\ [][ScaleNext]_vars

\* ------------------------------------------------------------------ C16
ProbeUpdated == probe.live /\ probe'.age > probe.age

\* C16 as stated: in fade and shrink mode the scale written by an update is
\* initialScale while the remaining life exceeds settings.exitDuration and
\* initialScale * (lifespan - age) / settings.exitDuration from then on; the
\* slot of a removed particle has scale zero, and in snap mode the scale
\* stays initialScale.
C16_StatedStep ==
    ProbeUpdated =>
        LET p         == probe'
            remaining == p.lifespan - p.age
            exit      == scaleSettings.exitDuration
        IN  IF ~p.live
            THEN p.instanceScale = 0
            ELSE /\ p.instanceScale = p.scale
                 /\ IF scaleSettings.disappearMode = "snap" \/ remaining > exit
                    THEN p.scale = p.initialScale
                    ELSE p.scale * exit = p.initialScale * remaining

C16_ExitOverExitDuration == [][C16_StatedStep]_vars

\* C16, amended: the exit window is min(settings.exitDuration, lifespan) of
\* the particle.  In fade and shrink mode the scale written by an update is
\* initialScale while the remaining life exceeds that window and
\* initialScale * (lifespan - age) / window from then on; a particle is
\* removed exactly when its age reaches its lifespan and its slot then has
\* scale zero; in snap mode the scale stays initialScale.
C16_Step ==
    ProbeUpdated =>
        LET p         == probe'
            remaining == p.lifespan - p.age
            exit      == Min(scaleSettings.exitDuration, p.lifespan)
        IN  /\ p.live <=> remaining > 0
            /\ IF ~p.live
               THEN p.instanceScale = 0
               ELSE /\ p.instanceScale = p.scale
                    /\ IF scaleSettings.disappearMode = "snap"
                          \/ remaining > exit
                       THEN p.scale = p.initialScale
                       ELSE p.scale * exit = p.initialScale * remaining

C16_ExitOverClampedDuration == [][C16_Step]_vars

\* Halfway through the exit of a fading particle.
C16_Witness ==
    /\ probe.live
    /\ scaleSettings.disappearMode = "fade"
    /\ probe.age > 0
    /\ 2 * (probe.lifespan - probe.age) =
           Min(scaleSettings.exitDuration, probe.lifespan)
    /\ 2 * probe.scale = probe.initialScale
    /\ probe.instanceScale = probe.scale

\* ------------------------------------------------------------------ C17
ProbeSpawned == ~probe.live /\ probe'.live

\* C17: the spawn scale is settings.size in fixed mode, lies in
\* [sizeMin, sizeMax] in random-size mode, and in speed-mapped mode equals
\* lerp(sizeMin, sizeMax, min(speed / 50, 1)) for every speed >= 0.
C17_Step ==
    ProbeSpawned =>
        LET scale == probe'.initialScale
            st    == scaleSettings
        IN  /\ probe'.scale = scale
            /\ IF st.randomSize
               THEN st.sizeMin <= scale /\ scale <= st.sizeMax
               ELSE IF st.sizeBySpeed
                    THEN /\ st.sizeMin <= scale /\ scale <= st.sizeMax
                         /\ SpeedReference * (scale - st.sizeMin) =
                                (st.sizeMax - st.sizeMin)
                                    * Min(mouseSpeed, SpeedReference)
                    ELSE scale = st.size

C17_SpawnScale == [][C17_Step]_vars

\* =====================================================================
\* The order of the calls of animate().
\* =====================================================================

\* animate(): the calls after clock.getDelta(), in the order of the source.
AnimateCallSpawnFirst(position) ==
    <<"trySpawnParticle", "updateMultiGradient", "updateParticles",
      "render">>[position]

AnimateCall(position) ==
    <<"updateMultiGradient", "trySpawnParticle", "updateParticles",
      "render">>[position]

NextCall == AnimateCall(Len(frameLog) + 1)

\* animate(): requestAnimationFrame has fired; delta = clock.getDelta().
FrameAnimate(d) ==
    /\ pc = "idle"
    /\ pc' = "frame"
    /\ delta' = d
    /\ lastSpawnTime' = Max(lastSpawnTime - d, -TimeHorizon)
    /\ UNCHANGED <<lastAcquire, isMouseDown, pointerOnPlane, matVars, modelVars,
                   blendVars, auxVars>>

\* updateMultiGradient(delta)
FrameBlendTick ==
    /\ pc = "frame"
    /\ NextCall = "updateMultiGradient"
    /\ UpdateMultiGradient(delta)
    /\ frameLog' = Append(frameLog, "updateMultiGradient")
    /\ UNCHANGED <<frameVars, inputVars, matVars, modelVars,
                   gradientCycleSpeed, gradientTextures,
                   scaleSettings, mouseSpeed, probe, loads, moreVars>>

\* trySpawnParticle(performance.now())
FrameSpawn ==
    /\ pc = "frame"
    /\ NextCall = "trySpawnParticle"
    /\ SpawnDecision
    /\ frameLog' = Append(frameLog, "trySpawnParticle")
    /\ UNCHANGED <<delta, pc, isMouseDown, pointerOnPlane, settings,
                   customMaterial, originalMaterial, useMultiGradientPools,
                   scene, modelVars, blendVars,
                   scaleSettings, mouseSpeed, probe, loads, moreVars>>

\* The calls one pool's pass of updateParticles makes on the instance
\* matrix of the pool, without the final finishUpdate().
MatrixCallsWithoutCommit(pool, id) ==
    IF Len(pool.particles) = 0 THEN << >>
    ELSE LET aged == [i \in 1..Len(pool.particles) |->
                          UpdateSingleParticle(pool.particles[i])]
             call(name) == [pool |-> id, call |-> name]
         IN  [i \in 1..Len(SelectSeq(aged, LAMBDA p : ~MarkedForRemoval(p)))
                  |-> call("updateInstance")]
             \o [i \in 1..Len(SelectSeq(aged, MarkedForRemoval))
                     |-> call("release")]

\* The calls one pool's pass of updateParticles makes on the instance
\* matrix of the pool: updateInstance for every particle that stays, release
\* for every particle marked, then finishUpdate(), which sets needsUpdate
\* when the pool has a mesh.  id is NULL for the main pool and the index of
\* a per-gradient pool.
MatrixCalls(pool, id) ==
    IF Len(pool.particles) = 0 THEN << >>
    ELSE MatrixCallsWithoutCommit(pool, id)
         \o (IF pool.instancedMesh # NoMesh
             THEN << [pool |-> id, call |-> "needsUpdate"] >> ELSE << >>)

\* The calls of updateParticles from pool k on: pool 0 is the main pool,
\* pool k the k-th per-gradient pool.
RECURSIVE UpdateCalls(_)
UpdateCalls(k) ==
    IF k = 0 THEN MatrixCalls(particlePool, NULL) \o UpdateCalls(1)
    ELSE IF ~useMultiGradientPools \/ k > Len(gradientPools) THEN << >>
    ELSE MatrixCalls(gradientPools[k].pool, k - 1) \o UpdateCalls(k + 1)

\* updateParticles(delta)
FrameUpdate ==
    /\ pc = "frame"
    /\ NextCall = "updateParticles"
    /\ UpdatePass
    /\ frameLog' = Append(frameLog, "updateParticles")
    /\ matrixLog' = UpdateCalls(0)
    /\ UNCHANGED <<delta, pc, lastAcquire, inputVars, settings, customMaterial,
                   originalMaterial, useMultiGradientPools, scene, modelVars,
                   blendVars, scaleSettings, mouseSpeed, probe, loads,
                   editor, content, physVars, exports, lifeVars>>

\* renderer.render(scene, camera), which ends the frame.
FrameRender ==
    /\ pc = "frame"
    /\ NextCall = "render"
    /\ pc' = "idle"
    /\ delta' = 0
    /\ lastAcquire' = NoAcquire
    /\ shader' = CompileShader
    /\ frameLog' = << >>
    /\ matrixLog' = << >>
    /\ UNCHANGED <<inputVars, matVars, modelVars, controllerVars,
                   gradientTextures, matcap,
                   scaleSettings, mouseSpeed, probe, loads,
                   editor, content, physVars, exports, lifeVars>>

FrameNext ==
    \/ MouseDown
    \/ MouseUp
    \/ LoadSuccess
    \/ BlendToggleClick
    \/ BlendAddGradient
    \/ \E mode \in {"random", "time"} : BlendModeChange(mode)
    \/ \E d \in Deltas : FrameAnimate(d)
    \/ FrameBlendTick
    \/ FrameSpawn
    \/ FrameUpdate
    \/ FrameRender

FrameSpec == Init /\ [][FrameNext]_vars

\* ------------------------------------------------------------------ C18
TickCalled == frameLog' = Append(frameLog, "updateMultiGradient")
SpawnCalled == frameLog' = Append(frameLog, "trySpawnParticle")
UpdateCalled == frameLog' = Append(frameLog, "updateParticles")
Committed == pc = "frame" /\ pc' = "idle"

\* What each call of the frame is seen to do.
PairTicked ==
    /\ pc = "frame"
    /\ <<gradientMixRatio, currentGradientA, currentGradientB>>' #
           <<gradientMixRatio, currentGradientA, currentGradientB>>
ParticleSpawned == LiveParticles' > LiveParticles
ParticlesUpdated == pc = "frame" /\ LiveParticles' = LiveParticles
                        /\ <<particlePool, gradientPools>>' #
                               <<particlePool, gradientPools>>
ParticleRemoved == pc = "frame" /\ LiveParticles' < LiveParticles

\* C18 as stated: in every tick the spawn decision comes first, then the
\* tick of the blend controller, then the update pass, then the commit.
C18_StatedStep ==
    /\ SpawnCalled => frameLog = << >>
    /\ ParticleSpawned => SpawnCalled
    /\ TickCalled => frameLog = <<"trySpawnParticle">>
    /\ PairTicked => TickCalled
    /\ UpdateCalled => frameLog = <<"trySpawnParticle", "updateMultiGradient">>
    /\ ParticlesUpdated \/ ParticleRemoved => UpdateCalled
    /\ Committed => Len(frameLog) = 3

C18_SpawnBeforeBlendTick == [][C18_StatedStep]_vars

\* C18, amended: in every tick the blend controller ticks first, then the
\* spawn decision is taken, then the update pass runs over every live
\* particle of every active pool and commits each pool, then the frame is
\* rendered; no particle is spawned, aged or removed and the blend pair is
\* not advanced by any other step of the tick.
C18_Step ==
    /\ TickCalled => frameLog = << >>
    /\ PairTicked => TickCalled
    /\ SpawnCalled => frameLog = <<"updateMultiGradient">>
    /\ ParticleSpawned => SpawnCalled
    /\ UpdateCalled => frameLog = <<"updateMultiGradient", "trySpawnParticle">>
    /\ ParticlesUpdated \/ ParticleRemoved => UpdateCalled
    /\ Committed => frameLog = <<"updateMultiGradient", "trySpawnParticle",
                                 "updateParticles">>

C18_BlendTickBeforeSpawn == [][C18_Step]_vars

\* A frame in which the controller has ticked, a particle has then been
\* spawned, and the update pass has aged it.
C18_Witness ==
    /\ pc = "frame"
    /\ frameLog = <<"updateMultiGradient", "trySpawnParticle",
                    "updateParticles">>
    /\ ControllerRuns
    /\ gradientMixRatio > 0
    /\ lastAcquire.attempted
    /\ lastAcquire.index # NULL
    /\ LiveParticles > 0

\* =====================================================================
\* Model loads in flight.
\* =====================================================================

\* The uploads followed, besides the default model.
MaxUploads == 2

\* loads[i] is the i-th load requested: who asked for it, how the loader
\* answered, and the promise its caller holds (of loadDefaultModel() for the
\* default model, of loadGLBModel(file) for an upload).  inFlight is the
\* set of loads that were pending when it was requested.  The geometry of
\* the file of loads[i] is named i.
Load(kind, available, inFlight) ==
    [kind     |-> kind,
     status   |-> IF available THEN "pending" ELSE "failed",
     reason   |-> IF available THEN "none" ELSE "loader unavailable",
     promise  |-> IF available THEN "pending"
                  ELSE IF kind = "default" THEN "resolved" ELSE "rejected",
     inFlight |-> inFlight]

Pending == {i \in 1..Len(loads) : loads[i].status = "pending"}

engineVars == <<delta, pc, isMouseDown, pointerOnPlane, lastSpawnTime,
                settings, particlePool, loadedGeometry, loadedMaterial,
                isModelLoaded, customMaterial, originalMaterial,
                gradientPools, useMultiGradientPools, scene, lastAcquire>>

\* init(): its last statement, loadDefaultModel(), which calls
\* loadGLBFromURL; without window.GLTFLoader the promise is rejected at
\* once and the catch of loadDefaultModel logs a warning.
LoadDefaultModel(available) ==
    /\ loads = << >>
    /\ loads' = << Load("default", available, {}) >>
    /\ UNCHANGED <<engineVars, blendVars, scaleSettings, mouseSpeed, probe,
                   frameLog, moreVars>>

\* The change handler of the model-upload input: loadGLBModel(file).
UploadModel(available) ==
    /\ pc = "idle"
    /\ loads # << >>
    /\ Len(loads) < 1 + MaxUploads
    /\ loads' = Append(loads, Load("user", available, Pending))
    /\ UNCHANGED <<engineVars, blendVars, scaleSettings, mouseSpeed, probe,
                   frameLog, moreVars>>

\* A faulty error path that forgets the shape.
OnLoadErrorClearingModel(i) ==
    /\ isModelLoaded' = FALSE
    /\ UNCHANGED <<loadedGeometry, loadedMaterial, particlePool, scene>>

\* The error callback of loader.load, and the "No mesh found" return of the
\* success callback: reject(error) and nothing else.
OnLoadError(i) ==
    UNCHANGED <<loadedGeometry, loadedMaterial, isModelLoaded, particlePool,
                scene>>

\* The loader answers load i with a file that has a mesh.
LoadCompletes(i) ==
    /\ pc = "idle"
    /\ i \in Pending
    /\ OnLoad(i)
    /\ loads' = [loads EXCEPT ![i].status = "loaded", ![i].promise = "resolved"]
    /\ UNCHANGED <<settings, customMaterial, originalMaterial, gradientPools,
                   useMultiGradientPools, inputVars, frameVars, blendVars,
                   scaleSettings, mouseSpeed, probe, frameLog, moreVars>>

\* The loader answers load i with an error or with a file without a mesh.
LoadFails(i, reason) ==
    /\ pc = "idle"
    /\ i \in Pending
    /\ OnLoadError(i)
    /\ loads' = [loads EXCEPT
                    ![i].status = "failed",
                    ![i].reason = reason,
                    ![i].promise = IF loads[i].kind = "default"
                                   THEN "resolved" ELSE "rejected"]
    /\ UNCHANGED <<settings, customMaterial, originalMaterial, gradientPools,
                   useMultiGradientPools, inputVars, frameVars, blendVars,
                   scaleSettings, mouseSpeed, probe, frameLog, moreVars>>

LoadNext ==
    \/ \E available \in BOOLEAN : LoadDefaultModel(available)
    \/ \E available \in BOOLEAN : UploadModel(available)
    \/ \E i \in 1..(1 + MaxUploads) : LoadCompletes(i)
    \/ \E i \in 1..(1 + MaxUploads), reason \in {"fetch error", "no mesh"} :
           LoadFails(i, reason)
    \/ loads # << >> /\ ClearModel
    \/ loads # << >> /\ MouseDown
    \/ loads # << >> /\ \E d \in Deltas : Animate(d)
    \/ TrySpawnParticle
    \/ UpdateParticles

LoadSpec == Init /\ [][LoadNext]_vars

\* ------------------------------------------------------------------ C19
\* Load i fails in this step.
Failed(i) ==
    /\ i \in 1..Len(loads')
    /\ loads'[i].status = "failed"
    /\ i \in 1..Len(loads) => loads[i].status = "pending"

NoShape ==
    /\ ~isModelLoaded
    /\ loadedGeometry = 0
    /\ loadedMaterial = 0
    /\ particlePool.instancedMesh = NoMesh
    /\ LiveParticles = 0

\* The default load has failed and no upload has succeeded.
OnlyFailures ==
    /\ loads # << >>
    /\ loads[1].status = "failed"
    /\ \A i \in 2..Len(loads) : loads[i].status # "loaded"

C19_Step ==
    /\ \A i \in 1..(1 + MaxUploads) :
           Failed(i) =>
               /\ UNCHANGED <<loadedGeometry, loadedMaterial, particlePool,
                              isModelLoaded, gradientPools, scene>>
               /\ loads'[i].kind = "user" => loads'[i].promise = "rejected"
               /\ loads'[i].kind = "default" => loads'[i].promise = "resolved"
    /\ OnlyFailures' => NoShape'

\* C19: a load that fails (no loader, fetch error, no mesh) leaves
\* loadedGeometry, loadedMaterial, particlePool, isModelLoaded and the live
\* particles as they were; after a failed default load, and as long as no
\* upload has succeeded, the engine has no shape and no particle; a failed
\* upload rejects the promise of its caller.
C19_FailedLoadChangesNothing == [][C19_Step]_vars

\* An upload has failed with a fetch error while the shape of the default
\* model is bound and a particle is alive.
C19_Witness ==
    /\ Len(loads) >= 2
    /\ loads[1].status = "loaded"
    /\ loads[2].status = "failed"
    /\ loads[2].reason = "fetch error"
    /\ loads[2].promise = "rejected"
    /\ loadedGeometry = 1
    /\ isModelLoaded
    /\ LiveParticles > 0

\* ------------------------------------------------------------------ C20
\* C20: when load b was requested while load a was in flight, then in the
\* state in which both have completed (and no later load has) the bound
\* shape and the main pool are those of b and no mesh of a is in the scene.
C20_Step ==
    \A a, b \in 1..(1 + MaxUploads) :
        /\ b \in 1..Len(loads)
        /\ a \in loads[b].inFlight
        /\ loads'[a].status = "loaded"
        /\ loads'[b].status = "loaded"
        /\ loads[a].status = "pending" \/ loads[b].status = "pending"
        /\ \A c \in (b + 1)..Len(loads) : loads'[c].status # "loaded"
        => /\ loadedGeometry' = b
           /\ particlePool'.instancedMesh = MainMesh(b)
           /\ MainMesh(a) \notin scene'

C20_LaterRequestWins == [][C20_Step]_vars

\* ------------------------------------------------------------------ C21
\* C21: at every tick boundary with a model loaded, the mesh of the main
\* pool carries the custom MatCap material exactly when
\* settings.materialEnabled is true.
C21_MaterialFollowsSetting ==
    (pc = "idle" /\ isModelLoaded) =>
        (particlePool.material = MatcapMaterial <=> settings.materialEnabled)

\* =====================================================================
\* The gradient editor of the panel, with the custom material off.
\* =====================================================================
\* editor.gradientStops[i + 1] is settings.gradientSets[i].stops.length, so
\* that Len(editor.gradientStops) is settings.gradientSets.length.  With the
\* material off the handlers rebuild no pool and no texture.

MinStops == 2
MaxStops == 6

\* The gradient whose body is shown; its buttons are the only ones in reach.
Expanded == editor.expandedGradientIndex

\* A faulty add-stop handler without the "Max 6 stops" return.
AddStopUnchecked(index) ==
    editor' = [editor EXCEPT !.gradientStops[index + 1] = @ + 1]

\* The add-stop button of gradient index.
AddStop(index) ==
    IF editor.gradientStops[index + 1] >= MaxStops
    THEN UNCHANGED editor
    ELSE editor' = [editor EXCEPT !.gradientStops[index + 1] = @ + 1]

\* The remove-stop button of gradient index.
RemoveStop(index) ==
    IF editor.gradientStops[index + 1] <= MinStops
    THEN UNCHANGED editor
    ELSE editor' = [editor EXCEPT !.gradientStops[index + 1] = @ - 1]

\* The add-gradient button: the new gradient is expanded and active.
AddGradientSet ==
    IF Len(editor.gradientStops) >= MaxGradients
    THEN UNCHANGED editor
    ELSE editor' = [gradientStops |-> Append(editor.gradientStops, DefaultStops),
                    expandedGradientIndex |-> Len(editor.gradientStops),
                    activeGradientIndex   |-> Len(editor.gradientStops)]

\* A faulty delete handler that pulls back the expanded index only.
DeleteGradientSetWithoutClamp(index) ==
    IF Len(editor.gradientStops) <= 1
    THEN UNCHANGED editor
    ELSE LET stops == [i \in 1..(Len(editor.gradientStops) - 1) |->
                          IF i <= index THEN editor.gradientStops[i]
                          ELSE editor.gradientStops[i + 1]]
         IN editor' =
               [gradientStops |-> stops,
                expandedGradientIndex |->
                    IF Expanded >= Len(stops) THEN Len(stops) - 1 ELSE Expanded,
                activeGradientIndex |-> editor.activeGradientIndex]

\* The delete button of gradient index: splice(index, 1), then the expanded
\* and the active index are pulled back into range.
DeleteGradientSet(index) ==
    IF Len(editor.gradientStops) <= 1
    THEN UNCHANGED editor
    ELSE LET stops == [i \in 1..(Len(editor.gradientStops) - 1) |->
                          IF i <= index THEN editor.gradientStops[i]
                          ELSE editor.gradientStops[i + 1]]
         IN editor' =
               [gradientStops |-> stops,
                expandedGradientIndex |->
                    IF Expanded >= Len(stops) THEN Len(stops) - 1 ELSE Expanded,
                activeGradientIndex |->
                    IF editor.activeGradientIndex >= Len(stops)
                    THEN Len(stops) - 1 ELSE editor.activeGradientIndex]

\* A click on the header of gradient index: collapse it when it is the
\* expanded one, else expand it and make it the active gradient.
HeaderClick(index) ==
    editor' = IF Expanded = index
              THEN [editor EXCEPT !.expandedGradientIndex = -1]
              ELSE [editor EXCEPT !.expandedGradientIndex = index,
                                  !.activeGradientIndex = index]

\* applyGradientSet(index), with the custom material off (updateMaterial
\* returns at once): an index past the end, and an index at which
\* settings.gradientSets holds nothing, change nothing.
ApplyGradientSet(index) ==
    IF index >= Len(editor.gradientStops)
    THEN UNCHANGED editor
    ELSE IF index \notin 0..(Len(editor.gradientStops) - 1)
    THEN UNCHANGED editor
    ELSE editor' = [editor EXCEPT !.activeGradientIndex = index]

EditorNext ==
    /\ \/ Expanded >= 0 /\ AddStop(Expanded)
       \/ Expanded >= 0 /\ RemoveStop(Expanded)
       \/ AddGradientSet
       \/ \E index \in 1..(Len(editor.gradientStops) - 1) :
              DeleteGradientSet(index)
       \/ \E index \in 0..(Len(editor.gradientStops) - 1) : HeaderClick(index)
       \/ \E index \in -1..MaxGradients : ApplyGradientSet(index)
    /\ UNCHANGED <<engineVars, blendVars, scaleSettings, mouseSpeed, probe,
                   loads, frameLog, content, physVars, lateVars, lifeVars>>

EditorSpec == Init /\ [][EditorNext]_vars

\* ------------------------------------------------------------------ C22
\* C22: every gradient has between 2 and 6 stops and the gradient set has
\* between 1 and 5 gradients; the handlers refuse the add or the remove
\* that would leave these bounds.
C22_StopsAndSetsBounded ==
    /\ Len(editor.gradientStops) >= 1
    /\ Len(editor.gradientStops) <= MaxGradients
    /\ \A i \in 1..Len(editor.gradientStops) :
           /\ editor.gradientStops[i] >= MinStops
           /\ editor.gradientStops[i] <= MaxStops

\* A full set, the expanded gradient with the most stops and another with
\* the fewest: add-stop and add-gradient are refused here.
C22_Witness ==
    /\ Len(editor.gradientStops) = MaxGradients
    /\ Expanded >= 0
    /\ editor.gradientStops[Expanded + 1] = MaxStops
    /\ \E i \in 1..Len(editor.gradientStops) : editor.gradientStops[i] = MinStops

\* =====================================================================
\* Edits of the gradients and of the light, with the textures in use.
\* =====================================================================

\* The values a gradient's stops and type, and the light position, take.
Contents == {0, 1}

\* The generator itself (window.MatCapGenerator) is a script outside these
\* sources: a texture is modelled by what it was generated from.  C28 (two
\* calls of generate with the same arguments give the same image) says
\* nothing about this model that is not true of every operator, and is not
\* stated.

\* matcapGenerator.generate(...) on the values c.
Generate(gradientIndex, c) ==
    [gradient |-> gradientIndex,
     stops    |-> c.gradients[gradientIndex],
     light    |-> c.lightPosition]

\* updateMaterialPreview(gradientIndex), called when the values are c: the
\* texture of the main material afterwards.  isIndex is false when the
\* argument is not a number (the input event of a listener registered as
\* addEventListener('input', updateMaterialPreview)); settings.gradientSets
\* has no such key and the function returns.
UpdateMaterialPreview(isIndex, gradientIndex, c) ==
    LET idx == IF gradientIndex # NULL THEN gradientIndex
               ELSE editor.activeGradientIndex
        active == IF editor.activeGradientIndex < Len(settings.gradientSets)
                  THEN editor.activeGradientIndex ELSE 0
    IN  IF \/ ~settings.materialEnabled
           \/ ~isIndex
           \/ idx \notin 0..(Len(settings.gradientSets) - 1)
           \/ idx # editor.activeGradientIndex
           \/ particlePool.instancedMesh = NoMesh
           \/ ~matcapGenerator
           \/ customMaterial = NoMaterial
        THEN matcap
        ELSE Generate(active, c)

\* The add-gradient button: the new gradient has random colours.
TextureAddGradient ==
    /\ PushGradient
    /\ editor' = [gradientStops |-> Append(editor.gradientStops, DefaultStops),
                  expandedGradientIndex |-> Len(editor.gradientStops),
                  activeGradientIndex   |-> Len(editor.gradientStops)]
    /\ \E value \in Contents :
           content' = [content EXCEPT
                          !.gradients[Len(editor.gradientStops)] = value]
    /\ UNCHANGED <<scaleSettings, mouseSpeed, probe, loads, frameLog,
                   physVars, lateVars, lifeVars>>

\* The colour and position inputs of a stop and the type select of the
\* expanded gradient: the value is stored and updateMaterialPreview(index)
\* is called.
ContentInput(value) ==
    /\ pc = "idle"
    /\ Expanded >= 0
    /\ value # content.gradients[Expanded]
    /\ content' = [content EXCEPT !.gradients[Expanded] = value]
    /\ matcap' = UpdateMaterialPreview(TRUE, Expanded, content')
    /\ UNCHANGED <<engineVars, controllerVars, gradientTextures, shader,
                   scaleSettings, mouseSpeed, probe, loads, frameLog, editor,
                   physVars, lateVars, lifeVars>>

\* The light-position slider: setupSlider stores the value, and the second
\* listener is updateMaterialPreview itself, which receives the event.
LightPositionInput(value) ==
    /\ pc = "idle"
    /\ value # content.lightPosition
    /\ content' = [content EXCEPT !.lightPosition = value]
    /\ matcap' = UpdateMaterialPreview(FALSE, NULL, content')
    /\ UNCHANGED <<engineVars, controllerVars, gradientTextures, shader,
                   scaleSettings, mouseSpeed, probe, loads, frameLog, editor,
                   physVars, lateVars, lifeVars>>

TextureNext ==
    \/ LoadSuccess
    \/ BlendToggleClick
    \/ \E mode \in {"random", "time"} : BlendModeChange(mode)
    \/ TextureAddGradient
    \/ \E value \in Contents : ContentInput(value)
    \/ \E value \in Contents : LightPositionInput(value)

TextureSpec == Init /\ [][TextureNext]_vars

\* ------------------------------------------------------------------ C23
\* C23: while the custom material is on, the texture of the main material
\* is the one generated from the current stops, type and light position of
\* some gradient of the set, and in time mode every texture of
\* gradientTextures is the one generated from the current values of its
\* gradient.
C23_TexturesAreCurrent ==
    (settings.materialEnabled /\ customMaterial # NoMaterial) =>
        /\ \E i \in 0..(Len(settings.gradientSets) - 1) : matcap = Texture(i)
        /\ settings.multiGradientMode = "time" =>
               \A i \in 1..Len(gradientTextures) :
                   gradientTextures[i] = Texture(i - 1)

\* =====================================================================
\* The motion of a particle: updateSingleParticle.
\*
\* Lengths are in tenths of a world unit, velocities in tenths of a unit
\* per frame of 1/60 s, angles in degrees, times in tenths of a second.
\* One particle is followed, in the plane of the pointer (z = 0), with its
\* yaw; pitch and roll are written by the same lines with other constants.
\* Float and tumble are off (tumble adds a random term to the angular
\* velocity that spin sets) and the camera is where init() puts it.

\* clock.getDelta() of a tick, in tenths of a second.
TickTenths == 10
\* settings.lifespan, in tenths of a second.
BodyLifespan == 50
\* settings.bounceHeight and settings.bounceAmount (in tenths).
BounceHeight == -30
BounceAmount == 6
\* settings.gravityStrength * 10 and settings.spinSpeed in degrees per second.
GravityStrength == 98
SpinSpeed == 57
\* Math.PI / 2.5 in degrees.
MaxAngleY == 72
\* camera.position.z in tenths.
CameraZ == 100

\* Where the pointer ray can meet the plane.
Points == {Point(0, 0), Point(40, -20)}
\* Math.random() * Math.PI * 2 in degrees.
RandomYaws == {90, 200}
FacingModes == {"random", "billboard", "mouse"}

Abs(a) == IF a >= 0 THEN a ELSE -a
\* The quotient rounded toward zero.
Quot(a, b) == IF a >= 0 THEN a \div b ELSE -((-a) \div b)

RECURSIVE Newton(_, _)
Newton(n, x) ==
    LET y == (x + n \div x) \div 2
    IN  IF y >= x THEN x ELSE Newton(n, y)
\* Vector3.length(): the integer part of the square root.
Length(dx, dy) ==
    LET n == dx * dx + dy * dy
    IN  IF n = 0 THEN 0 ELSE Newton(n, n)

\* Math.atan of a tangent given in tenths, in degrees.
Atan(t) ==
    LET table == <<6, 11, 17, 22, 27, 31, 35, 39, 42, 45,
                   48, 50, 52, 54, 56, 58, 60, 61, 62, 63>>
        half(u) == IF u = 0 THEN 0
                   ELSE IF u <= 20 THEN table[u]
                   ELSE 90 - (IF 100 \div u = 0 THEN 0 ELSE table[100 \div u])
    IN  IF t >= 0 THEN half(t) ELSE -half(-t)

\* The Particle constructor and setInitialRotation.
NewParticle(position, yaw) ==
    [live |-> TRUE, x |-> position.x, y |-> position.y, vx |-> 0, vy |-> 0,
     rotY |-> IF motion.facingMode = "random" THEN yaw ELSE 0,
     spinOffsetY |-> 0,
     angVelY |-> IF motion.spinEnabled THEN SpinSpeed ELSE 0,
     age |-> 0, lifespan |-> BodyLifespan]

\* "Apply bounce" without the clamp of the position.
BounceWithoutClamp(p) ==
    IF motion.bounceEnabled /\ p.y <= BounceHeight
    THEN [p EXCEPT !.vy = Quot(Abs(p.vy) * BounceAmount, 10)]
    ELSE p

\* "Apply bounce".
Bounce(p) ==
    IF motion.bounceEnabled /\ p.y <= BounceHeight
    THEN [p EXCEPT !.y = BounceHeight,
                   !.vy = Quot(Abs(p.vy) * BounceAmount, 10)]
    ELSE p

\* "Apply gravity", "Apply follow", "Apply velocity damping": the velocity
\* of p after them, when the tick found the pointer at mouse.
Velocity(p, d, mouse) ==
    LET gvy == IF motion.gravityEnabled
               THEN p.vy - Quot(GravityStrength * d, 10) ELSE p.vy
        dx  == mouse.x - p.x
        dy  == mouse.y - p.y
        len == Length(dx, dy)
        pull == motion.followEnabled /\ mouse.hit /\ len > 1
        fvx == IF pull THEN p.vx + Quot(dx * d, len) ELSE p.vx
        fvy == IF pull THEN gvy + Quot(dy * d, len) ELSE gvy
    IN  [vx |-> Quot(fvx * 99, 100), vy |-> Quot(fvy * 99, 100)]

\* "Face mouse": the yaw of p (already moved and aged) after the block,
\* toward the global position last.
FaceMouse(p, last) ==
    LET dx  == last.x - p.x
        dy  == last.y - p.y
        len == Length(dx, dy)
        targetRotY == Quot(Atan(Quot(dx * 20, len)) * 12, 10) + p.spinOffsetY
        off == targetRotY - p.spinOffsetY
        clampedRotY == Max(-MaxAngleY, Min(MaxAngleY, off)) + p.spinOffsetY
        lagFactor == 10 + Quot(15 * p.age, p.lifespan)
    IN  IF len > 0
        THEN p.rotY + Quot((clampedRotY - p.rotY) * lagFactor, 100)
        ELSE p.rotY

\* updateSingleParticle for a particle that stays alive: mouse is the local
\* currentMouseWorld of the tick, last the global currentMouseWorldPos.
MoveSingleParticle(p, d, mouse, last) ==
    LET v     == Velocity(p, d, mouse)
        moved == Bounce([p EXCEPT !.age = p.age + d,
                                  !.vx = v.vx, !.vy = v.vy,
                                  !.x = p.x + v.vx * 6 * d,
                                  !.y = p.y + v.vy * 6 * d])
        turn  == Quot(moved.angVelY * d, 10)
        spun  == [moved EXCEPT !.spinOffsetY = moved.spinOffsetY + turn]
    IN  CASE motion.facingMode = "random" ->
                 [spun EXCEPT !.rotY = spun.rotY + turn]
          [] motion.facingMode = "billboard" ->
                 [spun EXCEPT !.rotY =
                      Atan(Quot((0 - spun.x) * 10, CameraZ)) + spun.spinOffsetY]
          [] OTHER ->
                 [spun EXCEPT !.rotY = FaceMouse(spun, last)]

\* ----------------------------------------------- handlers in PhysicsSpec
otherVars == <<engineVars, blendVars, scaleSettings, mouseSpeed, probe,
               loads, frameLog, editor, content, lateVars, lifeVars>>

\* setupToggle of follow-enabled, gravity-enabled, bounce-enabled and
\* spin-enabled.
MotionToggle(key) ==
    /\ motion' = [motion EXCEPT ![key] = ~motion[key]]
    /\ UNCHANGED <<body, currentMouseWorld, currentMouseWorldPos, otherVars>>

\* The change listener of the facing-mode select.
FacingModeChange(mode) ==
    /\ mode # motion.facingMode
    /\ motion' = [motion EXCEPT !.facingMode = mode]
    /\ UNCHANGED <<body, currentMouseWorld, currentMouseWorldPos, otherVars>>

\* A particle marked for removal to which the rules after the lifespan
\* check would still be applied.
MarkedAfterRules(p, d, mouse, last) ==
    [MoveSingleParticle(p, d, mouse, last) EXCEPT !.live = FALSE]

\* updateSingleParticle for a particle whose age reaches its lifespan: it
\* returns true right after "particle.age += delta", and the particle is
\* deleted from the Map by release().
Marked(p, d, mouse, last) == [p EXCEPT !.live = FALSE, !.age = p.age + d]

\* One call of animate: trySpawnParticle and updateParticles(d), both of
\* which get mouse from getWorldPosition().  spawning says that the mouse is
\* down, a model is loaded and the spawn interval has passed; yaw is the
\* random yaw of a new particle.
AnimateBody(d, mouse, spawning, yaw) ==
    LET last == IF mouse.hit THEN mouse ELSE currentMouseWorldPos
        p    == IF spawning /\ mouse.hit /\ ~body.live
                THEN NewParticle(mouse, yaw) ELSE body
    IN  /\ currentMouseWorld' = mouse
        /\ currentMouseWorldPos' = last
        /\ body' = IF ~p.live THEN p
                   ELSE IF p.age + d >= p.lifespan THEN Marked(p, d, mouse, last)
                   ELSE MoveSingleParticle(p, d, mouse, last)
        /\ UNCHANGED <<motion, otherVars>>

\* The translation of the particle: follow, gravity and bounce, with the
\* facing mode init() leaves.
PhysicsNext ==
    \/ \E key \in {"followEnabled", "gravityEnabled", "bounceEnabled"} :
           MotionToggle(key)
    \/ \E mouse \in Points \cup {NoPoint}, spawning \in BOOLEAN,
          yaw \in RandomYaws :
           AnimateBody(TickTenths, mouse, spawning, yaw)

PhysicsSpec == Init /\ [][PhysicsNext]_vars

\* The rotation of the particle: spin and the facing modes, with follow.
FacingNext ==
    \/ \E key \in {"followEnabled", "spinEnabled"} : MotionToggle(key)
    \/ \E mode \in FacingModes : FacingModeChange(mode)
    \/ \E mouse \in Points \cup {NoPoint}, spawning \in BOOLEAN,
          yaw \in RandomYaws :
           AnimateBody(TickTenths, mouse, spawning, yaw)

FacingSpec == Init /\ [][FacingNext]_vars

\* ------------------------------------------------------------------ C24
\* A step of updateParticles that the particle survives.
Moved == body.live /\ body'.live /\ body'.age = body.age + TickTenths

\* C24: in a tick in which the pointer has no world position the velocity
\* of the particle gains no follow component (the horizontal velocity is
\* only damped) and, in 'mouse' facing mode, its yaw is not eased toward a
\* pointer target; in a tick in which a position is available follow pulls
\* the particle toward that position.
C24_Step ==
    Moved =>
        LET dx  == currentMouseWorld'.x - body.x
            dy  == currentMouseWorld'.y - body.y
            len == Length(dx, dy)
        IN  IF ~currentMouseWorld'.hit
            THEN /\ body'.vx = Quot(body.vx * 99, 100)
                 /\ motion.facingMode = "mouse" => body'.rotY = body.rotY
            ELSE (motion.followEnabled /\ len > 1) =>
                     body'.vx = Quot((body.vx + Quot(dx * TickTenths, len)) * 99,
                                     100)

C24_NoPointerNoFollowNoFacing == [][C24_Step]_vars

\* ------------------------------------------------------------------ C29
\* C29: with bounce enabled, a tick leaves the particle at or above
\* bounceHeight; and when the position integrated in the tick is at or
\* below bounceHeight, the tick leaves y = bounceHeight and a vertical
\* velocity |vy| * bounceAmount, which is not negative.
C29_Step ==
    /\ (motion.bounceEnabled /\ body'.live /\ body' # body) =>
           body'.y >= BounceHeight
    /\ (motion.bounceEnabled /\ Moved) =>
           LET v == Velocity(body, TickTenths, currentMouseWorld')
           IN  body.y + v.vy * 6 * TickTenths <= BounceHeight =>
                   /\ body'.y = BounceHeight
                   /\ body'.vy = Quot(Abs(v.vy) * BounceAmount, 10)
                   /\ body'.vy >= 0

C29_BounceClamps == [][C29_Step]_vars

\* A particle that fell under gravity has been put back on the floor with
\* an upward velocity.
C29_Witness ==
    /\ motion.bounceEnabled /\ motion.gravityEnabled
    /\ body.live /\ body.y = BounceHeight /\ body.vy > 0

\* ------------------------------------------------------------------ C30
\* C30: in 'mouse' facing mode the yaw of a particle that a tick has
\* updated is at most 72 degrees in magnitude.
C30_Step ==
    (motion.facingMode = "mouse" /\ body'.live /\ body' # body) =>
        Abs(body'.rotY) <= MaxAngleY

C30_YawWithinMaxAngle == [][C30_Step]_vars

\* =====================================================================
\* High-resolution export: window.renderHighResolution(targetCanvas, scale),
\* called by the export tool between two frames.

\* Number of exports followed.
MaxExports == 1
\* Values of scale.
Scales == {0, 2}

\* An export that would also empty the main pool.
RenderHighResolutionClearing(scale) ==
    /\ pc = "idle"
    /\ Len(exports) < MaxExports
    /\ shader' = CompileShader
    /\ exports' = Append(exports, scale)
    /\ particlePool' = Clear(particlePool)
    /\ UNCHANGED <<delta, pc, lastAcquire, inputVars, settings, customMaterial,
                   originalMaterial, gradientPools, useMultiGradientPools,
                   scene, modelVars, controllerVars, gradientTextures, matcap,
                   scaleSettings, mouseSpeed, probe, loads, frameLog, editor,
                   content, physVars, matrixLog, lifeVars>>

\* renderHighResolution: the renderer is resized, renders the scene (the
\* first render of the custom material compiles its shader), the picture is
\* drawn on the target canvas and the size and aspect are put back.
RenderHighResolution(scale) ==
    /\ pc = "idle"
    /\ Len(exports) < MaxExports
    /\ shader' = CompileShader
    /\ exports' = Append(exports, scale)
    /\ UNCHANGED <<engineVars, controllerVars, gradientTextures, matcap,
                   scaleSettings, mouseSpeed, probe, loads, frameLog, editor,
                   content, physVars, matrixLog, lifeVars>>

ExportNext ==
    \/ MouseDown
    \/ LoadSuccess
    \/ BlendToggleClick
    \/ BlendAddGradient
    \/ \E mode \in {"random", "time"} : BlendModeChange(mode)
    \/ \E d \in Deltas : FrameAnimate(d)
    \/ FrameBlendTick
    \/ FrameSpawn
    \/ FrameUpdate
    \/ FrameRender
    \/ \E scale \in Scales : RenderHighResolution(scale)

ExportSpec == Init /\ [][ExportNext]_vars

\* ------------------------------------------------------------------ C25
\* C25: a call of renderHighResolution, whatever the scale, leaves every
\* pool (free indices, live particles, instance transforms), every
\* particle, the spawn timer and the blend pair and ratio as they were.
C25_Step ==
    Len(exports') > Len(exports) =>
        UNCHANGED <<particlePool, gradientPools, lastSpawnTime,
                    currentGradientA, currentGradientB, gradientMixRatio>>

C25_ExportKeepsEngineState == [][C25_Step]_vars

\* An export has been made while particles were alive and a blend was
\* under way.
C25_Witness ==
    /\ Len(exports) > 0
    /\ pc = "idle"
    /\ LiveParticles > 0
    /\ gradientMixRatio > 0

\* ------------------------------------------------------------------ C26
\* C26: between two frames, in every initialised pool (the main pool and
\* every per-gradient pool) every slot of the free list has the zero-scale
\* matrix.
C26_FreeSlotsAreZeroScale ==
    LET hidden(pool) ==
            pool.instancedMesh # NoMesh =>
                \A k \in 1..Len(pool.freeIndices) :
                    pool.matrix[pool.freeIndices[k]] = 0
    IN  pc = "idle" =>
            /\ hidden(particlePool)
            /\ \A i \in 1..Len(gradientPools) : hidden(gradientPools[i].pool)

\* Slots have been released: the free list of the main pool is no longer in
\* the order init() pushed it.
C26_Witness ==
    /\ pc = "idle"
    /\ particlePool.instancedMesh # NoMesh
    /\ \E k \in 1..(Len(particlePool.freeIndices) - 1) :
           particlePool.freeIndices[k] > particlePool.freeIndices[k + 1]

\* ------------------------------------------------------------------ C27
\* C27: when updateParticles has returned and the frame is about to be
\* rendered, every pool whose instance matrix was written (updateInstance)
\* or reset (release) in the frame has been committed exactly once, after
\* the last of its writes.
C27_CommittedOnceAfterWrites ==
    (pc = "frame" /\ NextCall = "render") =>
        \A k \in 1..Len(matrixLog) :
            LET id == matrixLog[k].pool
                commits == {j \in 1..Len(matrixLog) :
                                /\ matrixLog[j].pool = id
                                /\ matrixLog[j].call = "needsUpdate"}
            IN  /\ Cardinality(commits) = 1
                /\ \A j \in commits : j >= k

\* A frame in which one pool had a transform written and a slot reset, and
\* a second pool was written too.
C27_Witness ==
    /\ pc = "frame" /\ NextCall = "render"
    /\ \E j, k \in 1..Len(matrixLog) :
           /\ matrixLog[j].pool = matrixLog[k].pool
           /\ matrixLog[j].call = "updateInstance"
           /\ matrixLog[k].call = "release"
    /\ \E j, k \in 1..Len(matrixLog) : matrixLog[j].pool # matrixLog[k].pool

\* =====================================================================
\* The tick in which a particle is removed: the motion of one particle and
\* the scale and slot of one particle, taken together.
RemovalNext ==
    \/ \E key \in {"gravityEnabled", "spinEnabled"} : MotionToggle(key)
    \/ \E mouse \in Points \cup {NoPoint}, spawning \in BOOLEAN,
          yaw \in RandomYaws :
           AnimateBody(TickTenths, mouse, spawning, yaw)
    \/ /\ \/ \E mode \in DisappearModes : DisappearModeChange(mode)
          \/ \E random \in RandomQuarters : SpawnProbe(random)
          \/ \E d \in Deltas : UpdateProbe(d)
       /\ UNCHANGED <<poolVars, settings, blendVars>>

RemovalSpec == Init /\ [][RemovalNext]_vars

\* ------------------------------------------------------------------ C31
\* C31: the tick in which the age of a particle reaches its lifespan
\* leaves its position, velocity, rotation, spin offset and scale as they
\* were, and leaves the zero-scale matrix in its slot.
C31_Step ==
    /\ (body.live /\ ~body'.live) =>
           /\ body'.age >= body'.lifespan
           /\ <<body'.x, body'.y, body'.vx, body'.vy, body'.rotY,
                body'.spinOffsetY>>
              = <<body.x, body.y, body.vx, body.vy, body.rotY,
                  body.spinOffsetY>>
    /\ (probe.live /\ ~probe'.live) =>
           /\ probe'.age >= probe'.lifespan
           /\ probe'.scale = probe.scale
           /\ probe'.instanceScale = 0

C31_RemovalTickAppliesNoRule == [][C31_Step]_vars

\* A falling, spinning particle has been removed, and so has a particle
\* whose slot had been written.
C31_Witness ==
    /\ ~body.live /\ body.lifespan > 0 /\ body.age >= body.lifespan
    /\ motion.gravityEnabled /\ body.vy # 0 /\ body.spinOffsetY # 0
    /\ ~probe.live /\ probe.lifespan > 0 /\ probe.age >= probe.lifespan
    /\ probe.scale > 0

\* ------------------------------------------------------------------ C32
\* C32: whenever isModelLoaded holds the main pool is initialised (it has a
\* mesh, and every slot is either free or held by a live particle); and no
\* pool operation meets a pool without a mesh: a pool that acquire() was
\* called on in the frame has a mesh, a pool that holds particles (the ones
\* updateInstance and release are called for) has a mesh, and every
\* per-gradient pool (the ones cleanupMultiGradientPools clears) has a mesh.
C32_PoolInitialisedWhenLoaded ==
    LET target == IF lastAcquire.poolIndex = -1 THEN particlePool
                  ELSE gradientPools[lastAcquire.poolIndex + 1].pool
    IN  /\ isModelLoaded =>
               /\ particlePool.instancedMesh # NoMesh
               /\ Keys(particlePool) \cup
                  {particlePool.freeIndices[k] :
                       k \in 1..Len(particlePool.freeIndices)}
                  = 0..(particlePool.maxCount - 1)
        /\ lastAcquire.attempted => target.instancedMesh # NoMesh
        /\ Len(particlePool.particles) > 0 =>
               particlePool.instancedMesh # NoMesh
        /\ \A i \in 1..Len(gradientPools) :
               gradientPools[i].pool.instancedMesh # NoMesh

\* A particle has just been acquired from the main pool of a model loaded
\* after a clearModel, hence after the pool was replaced by a placeholder.
C32_Witness ==
    /\ isModelLoaded
    /\ lastAcquire.attempted /\ lastAcquire.index # NULL
    /\ lastAcquire.poolIndex = -1
    /\ loadedGeometry > 1

\* ------------------------------------------------------------------ C33
\* C33: toggleMaterialMode(false) after toggleMaterialMode(true) leaves on
\* the mesh of the main pool the material the current pool was initialised
\* with, whatever loads and clearModel calls came before or in between.
C33_Step ==
    (/\ settings.materialEnabled /\ ~settings'.materialEnabled
     /\ particlePool'.instancedMesh # NoMesh)
    => particlePool'.material = BaseMaterial(loadedGeometry')

C33_DisableRestoresCurrentBase == [][C33_Step]_vars

\* ------------------------------------------------------------------ C34
\* C34: at every tick boundary in time mode with N >= 2 gradients,
\* currentGradientA and currentGradientB are indices of the current
\* gradient set (both < N), also after gradients were added or deleted.
C34_PairWithinGradientSet ==
    (/\ pc = "idle"
     /\ settings.multiGradientMode = "time"
     /\ Len(settings.gradientSets) >= 2)
    => /\ currentGradientA \in 0..(Len(settings.gradientSets) - 1)
       /\ currentGradientB \in 0..(Len(settings.gradientSets) - 1)

\* ------------------------------------------------------------------ C35
\* C35: whenever the custom material exists, gradientTextures holds exactly
\* one texture per gradient set.
C35_OneTexturePerGradient ==
    customMaterial # NoMaterial =>
        Len(gradientTextures) = Len(settings.gradientSets)

\* =====================================================================
\* The texture objects: generation, installation and disposal.
\* =====================================================================
\* Every call of matcapGenerator.generate makes a new texture object, named
\* by the count of the textures made so far; 0 stands for no texture.
\* gpu.disposals[t] counts the dispose() calls on texture t (2: twice or
\* more).  gpu.custom: customMaterial is not null; gpu.onMesh: it is the
\* material of the main pool's mesh; gpu.compiled: its userData.shader is
\* set, so the matcap2 uniform exists.  gpu.poolTextures[i + 1] is the
\* matcap of gradientPools[i].material.

DisposeTexture(g, t) ==
    IF t = 0 THEN g
    ELSE [g EXCEPT !.disposals[t] = IF @ < 2 THEN @ + 1 ELSE @]

RECURSIVE DisposeAll(_, _)
DisposeAll(g, textures) ==
    IF textures = << >> THEN g
    ELSE DisposeAll(DisposeTexture(g, Head(textures)), Tail(textures))

\* The textures of n calls of matcapGenerator.generate.
Fresh(g, n) == [i \in 1..n |-> g.made + i]

RegenerateTextureObjects(g) ==
    LET d == DisposeAll(g, g.gradientTextures)
    IN  [d EXCEPT !.gradientTextures = Fresh(d, d.numGradients),
                  !.made = @ + d.numGradients]

CleanupPoolTextures(g) ==
    [DisposeAll(g, g.poolTextures) EXCEPT !.poolTextures = << >>]

\* initMultiGradientPools, called with the material enabled and a model
\* loaded: createMaterialForGradient generates one texture per gradient.
InitPoolTextures(g) ==
    LET c == CleanupPoolTextures(g)
    IN  [c EXCEPT !.poolTextures = Fresh(c, c.numGradients),
                  !.made = @ + c.numGradients]

\* updateMultiGradientPoolMaterials: a pool whose gradient is gone is skipped.
UpdatePoolTextures(g) ==
    LET n    == Len(g.poolTextures)
        hit  == {i \in 1..n : i <= g.numGradients}
        rank(i) == Cardinality({j \in hit : j <= i})
        d    == DisposeAll(g, [i \in 1..Cardinality(hit) |-> g.poolTextures[i]])
    IN  [d EXCEPT !.poolTextures =
                      [i \in 1..n |-> IF i \in hit THEN g.made + rank(i)
                                      ELSE g.poolTextures[i]],
                  !.made = @ + Cardinality(hit)]

ToggleTextureObjects(g, enabled) ==
    LET s1 == [g EXCEPT !.materialEnabled = enabled] IN
    IF ~s1.loaded THEN s1
    ELSE IF enabled
    THEN LET r == RegenerateTextureObjects(s1)
             m == [r EXCEPT !.custom = TRUE, !.onMesh = TRUE,
                            !.compiled = FALSE,
                            !.matcap = r.gradientTextures[1],
                            !.matcap2 = 0]
         IN  IF m.numGradients >= 2 /\ m.multiGradientMode = "random"
             THEN InitPoolTextures(m) ELSE m
    ELSE LET d == IF s1.custom
                  THEN [DisposeTexture(s1, s1.matcap) EXCEPT
                            !.custom = FALSE, !.compiled = FALSE,
                            !.matcap = 0, !.matcap2 = 0]
                  ELSE s1
         IN  CleanupPoolTextures([d EXCEPT !.onMesh = FALSE])

ReToggleTextureObjects(g) ==
    ToggleTextureObjects(ToggleTextureObjects(g, FALSE), TRUE)

UpdateMaterialObjects(g) ==
    IF ~g.materialEnabled \/ ~g.loaded THEN g
    ELSE LET t  == g.made + 1
             s1 == [g EXCEPT !.made = t]
             s2 == IF s1.custom
                   THEN [DisposeTexture(s1, s1.matcap) EXCEPT !.matcap = t]
                   ELSE s1
         IN  UpdatePoolTextures(s2)

\* updateGradientLerp when a transition completes.
LerpWrapObjects(g) ==
    LET a  == g.indexB
        b  == (g.indexB + 1) % g.numGradients
        gt == g.gradientTextures
    IN  [g EXCEPT !.indexA = a, !.indexB = b,
                  !.matcap = IF a + 1 <= Len(gt) THEN gt[a + 1] ELSE @,
                  !.matcap2 = IF b + 1 <= Len(gt) THEN gt[b + 1] ELSE @]

lifeOther == <<engineVars, blendVars, scaleSettings, mouseSpeed, probe,
               loads, frameLog, editor, content, physVars, lateVars>>

\* A handler or a frame step that takes gpu to g, while texture names last.
LifeStep(g) ==
    /\ g.made <= MaxTextures
    /\ gpu' = g
    /\ UNCHANGED lifeOther

LifeLoad ==
    /\ gpu.made <= MaxTextures
    /\ LifeStep([gpu EXCEPT !.loaded = TRUE, !.onMesh = FALSE])

LifeClearModel ==
    /\ gpu.loaded
    /\ LifeStep([gpu EXCEPT !.loaded = FALSE, !.onMesh = FALSE])

LifeToggleClick ==
    /\ gpu.made <= MaxTextures
    /\ LifeStep(ToggleTextureObjects(gpu, ~gpu.materialEnabled))

LifeUpdateMaterial ==
    /\ gpu.materialEnabled /\ gpu.loaded
    /\ LifeStep(UpdateMaterialObjects(gpu))

LifeAddGradient ==
    /\ gpu.numGradients < MaxLifeGradients
    /\ LET g == [gpu EXCEPT !.numGradients = @ + 1]
       IN  LifeStep(IF g.materialEnabled /\ g.multiGradientMode = "random"
                    THEN ReToggleTextureObjects(g) ELSE g)

LifeDeleteGradient ==
    /\ gpu.numGradients > 1
    /\ LET g == [gpu EXCEPT !.numGradients = @ - 1]
       IN  LifeStep(IF g.materialEnabled
                    THEN ReToggleTextureObjects(g) ELSE g)

LifeModeChange(mode) ==
    /\ mode # gpu.multiGradientMode
    /\ LET g == [gpu EXCEPT !.multiGradientMode = mode]
       IN  LifeStep(IF g.materialEnabled
                    THEN ReToggleTextureObjects(g) ELSE g)

\* The first render of the custom material: onBeforeCompile.
LifeCompile ==
    /\ gpu.custom /\ gpu.onMesh /\ ~gpu.compiled
    /\ LifeStep([gpu EXCEPT !.compiled = TRUE,
                            !.matcap2 = IF Len(gpu.gradientTextures) >= 2
                                        THEN gpu.gradientTextures[2]
                                        ELSE gpu.gradientTextures[1]])

\* A tick of updateGradientLerp that completes a transition.
LifeLerpWrap ==
    /\ gpu.numGradients >= 2 /\ gpu.multiGradientMode = "time"
    /\ gpu.custom /\ gpu.compiled
    /\ LifeStep(LerpWrapObjects(gpu))

LifeNext ==
    \/ LifeLoad
    \/ LifeClearModel
    \/ LifeToggleClick
    \/ LifeUpdateMaterial
    \/ LifeAddGradient
    \/ LifeDeleteGradient
    \/ \E mode \in {"random", "time"} : LifeModeChange(mode)
    \/ LifeCompile
    \/ LifeLerpWrap

LifeSpec == Init /\ [][LifeNext]_vars

\* ------------------------------------------------------------------ C36
\* C36: no texture is disposed twice, and a texture that has been disposed
\* is not the primary or the secondary texture of the custom material, nor
\* the texture of a per-gradient pool's material.
C36_NoUseAfterDispose ==
    LET Disposed(t) == t # 0 /\ gpu.disposals[t] > 0
    IN  /\ \A t \in 1..MaxTextures : gpu.disposals[t] <= 1
        /\ gpu.custom => ~Disposed(gpu.matcap) /\ ~Disposed(gpu.matcap2)
        /\ \A i \in 1..Len(gpu.poolTextures) : ~Disposed(gpu.poolTextures[i])

\* =====================================================================
\* The engine under the frame loop's scheduling.
\* =====================================================================
\* animate() re-arms itself with requestAnimationFrame before anything
\* else, and no step of it waits: a frame that is due starts, and a frame
\* that started runs trySpawnParticle and updateParticles to the end.
FairSpec ==
    /\ Init /\ [][Next]_vars
    /\ WF_vars(\E d \in Deltas : Animate(d))
    /\ WF_vars(TrySpawnParticle)
    /\ WF_vars(UpdateParticles)

C38_Step ==
    (/\ SpawnStep
     /\ lastAcquire'.attempted
     /\ lastAcquire'.poolIndex # -1
     /\ lastAcquire'.index = NULL)
    => /\ particlePool' = particlePool
       /\ gradientPools' = gradientPools
       /\ lastSpawnTime' = lastSpawnTime
       /\ pc' = "update" /\ ~(now - lastSpawnTime' < SpawnInterval)

C38_ExhaustedPoolDropsSpawn == [][C38_Step]_vars

\* An attempt on an exhausted per-gradient pool has just been dropped while
\* another per-gradient pool and the main pool have free slots.
C38_Witness ==
    /\ pc = "update"
    /\ lastAcquire.attempted
    /\ lastAcquire.poolIndex # -1
    /\ lastAcquire.index = NULL
    /\ Len(particlePool.freeIndices) > 0
    /\ \E k \in 1..Len(gradientPools) :
           /\ k # lastAcquire.poolIndex + 1
           /\ Len(gradientPools[k].pool.freeIndices) > 0

\* ------------------------------------------------------------------ C39
\* C39: for every particle that is live after an update, with any
\* exitDuration >= 0, the exit divides by a positive number only, the scale
\* written is positive and at most initialScale, and with exitDuration = 0
\* it is initialScale.
C39_Step ==
    (probe.live /\ probe'.live /\ probe'.age > probe.age) =>
        LET timeRemaining == probe'.lifespan - probe'.age
            exitDuration  == Min(scaleSettings.exitDuration, probe'.lifespan)
        IN  /\ (/\ scaleSettings.disappearMode \in {"fade", "shrink"}
                /\ timeRemaining <= exitDuration) => exitDuration > 0
            /\ 0 < probe'.scale /\ probe'.scale <= probe'.initialScale
            /\ probe'.instanceScale = probe'.scale
            /\ scaleSettings.exitDuration = 0 =>
                   probe'.scale = probe'.initialScale

C39_ExitScaleInRange == [][C39_Step]_vars

\* A particle has been updated with exitDuration = 0 in fade or shrink mode,
\* one tick before the end of its life.
C39_Witness ==
    /\ probe.live /\ probe.age > 0
    /\ probe.lifespan - probe.age = 1
    /\ scaleSettings.exitDuration = 0
    /\ scaleSettings.disappearMode \in {"fade", "shrink"}
    /\ probe.scale = probe.initialScale

\* ------------------------------------------------------------------ C40
\* C40: settings.activeGradientIndex is an index of the gradient set after
\* every add, delete, expand, collapse and applyGradientSet.
C40_ActiveGradientIndexValid ==
    editor.activeGradientIndex \in 0..(Len(editor.gradientStops) - 1)

\* The active gradient is the last of a set that is neither full nor a
\* single gradient, with every gradient collapsed: it is the one a delete
\* of the last gradient, or an add, has just made active.
C40_Witness ==
    /\ Len(editor.gradientStops) \in 2..(MaxGradients - 1)
    /\ editor.activeGradientIndex = Len(editor.gradientStops) - 1
    /\ Expanded = -1

====
